---- MODULE Spec2Model ----
(***************************************************************************)
(* The order matching engine of Mini-Exchange-UI (src/src/lib/             *)
(* orderMatcher.ts, class OrderMatcher), as a state machine.               *)
(*                                                                         *)
(* One action per public method; every action is the whole method call,    *)
(* the matching loop included.  JavaScript numbers are modelled as         *)
(* integers (zero and negative inputs included; NaN and the infinities     *)
(* are not part of the model).  Objects of the resting array are           *)
(* identified, inside one call, by their position in the array at the      *)
(* start of the call ("ref"): the arrays built by filter() and sort()      *)
(* hold references to the same objects, which the loop mutates in place.   *)
(* Trade identifiers `trade_${n}` are modelled by the number n, and the    *)
(* timestamps (Date.now()) of orders and trades are left out: no           *)
(* statement of the engine reads them.                                     *)
(*                                                                         *)
(* Three specifications share the actions: Spec (all orders over small     *)
(* prices and quantities, few calls), SpecLong (few different orders,      *)
(* more calls) and SpecDeep (getOrderBook on books of many price levels).  *)
(* SpecHeld adds a caller who keeps what a call returned; SpecForm and     *)
(* SpecFeed add the layer around the engine: the store (src/src/store/     *)
(* exchangeStore.ts), the order entry form and the simulated feed          *)
(* (FakeSocket). SpecSocket is FakeSocket with subscribers of any kind,    *)
(* SpecSocketFair the same with the pending timeout firing in the end, and *)
(* SpecTrades the store with its list of trades full.                      *)
(***************************************************************************)
EXTENDS Integers, Sequences, FiniteSets, TLC

\* ------------------------------------------------------------------ bounds
MaxPrice == 2
MaxQty == 2
\* the number of state-changing calls in one run of the engine
MaxCalls == 3

\* caller-assigned order identifiers (strings in the code)
Ids == {"a", "b", "c"}
\* prices a caller may pass: zero is not rejected by the engine
Prices == 0..MaxPrice
\* quantities a caller may pass: the engine validates nothing
Quantities == (0 - 1)..MaxQty
Sides == {"buy", "sell"}
Types == {"market", "limit"}

\* the Order values a caller can pass to addOrder (src/src/types/index.ts)
OrderInputs ==
    [id : Ids, price : Prices, quantity : Quantities, side : Sides, type : Types]

VARIABLES
    orders,      \* OrderMatcher.orders: the resting set, in insertion order
    trades,      \* OrderMatcher.trades: the trade log, in generation order
    sequenceId,  \* OrderMatcher.sequenceId: the next trade number
    op,          \* the method called last
    arg,         \* its argument
    pre,         \* the engine state at the start of that call
    ret,         \* what the call returned
    steps,       \* the iterations of the matching loop of that call
    calls,       \* how many state-changing calls were made so far
    issued,      \* the largest trade number handed out so far, -1 for none
    again,       \* whether the call repeats the read made just before it
    held,        \* what a caller kept of the result of an earlier call
    store,       \* the state of useExchangeStore
    socket,      \* the fields of the FakeSocket singleton
    timers,      \* the handles of the pending timeouts (setTimeout)
    conns,       \* the closures made by initializeSocket, one per call
    last         \* the action taken last outside the engine, and what it called

vars == <<orders, trades, sequenceId, op, arg, pre, ret, steps, calls, issued, again,
          held, store, socket, timers, conns, last>>

\* the variables outside the engine
outside == <<held, store, socket, timers, conns, last>>

\* ----------------------------------------------------------------- helpers
Null == << >>
Some(x) == <<x>>

Min(a, b) == IF a <= b THEN a ELSE b

RECURSIVE Reverse(_)
Reverse(s) == IF s = << >> THEN << >> ELSE Append(Reverse(Tail(s)), Head(s))

\* an order as it rests: the caller's fields plus two history fields,
\* orig (the quantity with which it entered the resting set) and filled
\* (the sum of the quantities of the trades generated against it)
Resting(o) ==
    [id |-> o.id, price |-> o.price, quantity |-> o.quantity, side |-> o.side,
     type |-> o.type, orig |-> o.quantity, filled |-> 0]

\* the caller-visible fields of a resting order
Core(o) ==
    [id |-> o.id, price |-> o.price, quantity |-> o.quantity, side |-> o.side,
     type |-> o.type]

OpposingSide(order) == IF order.side = "buy" THEN "sell" ELSE "buy"

\* ------------------------------------------------- the matching algorithm
\* faulty variant of Compare: ascending for either side
CompareAscending(order, a, b) == a.price - b.price

\* faulty variant of Compare: orders of one price go by their timestamps,
\* where they carry any
CompareThenTimestamp(order, a, b) ==
    LET byPrice == IF order.side = "buy" THEN a.price - b.price ELSE b.price - a.price
    IN IF byPrice # 0 THEN byPrice
       ELSE IF "timestamp" \in DOMAIN a /\ "timestamp" \in DOMAIN b
            THEN a.timestamp - b.timestamp
       ELSE 0

\* the comparator handed to sort(): negative when a goes before b
Compare(order, a, b) ==
    IF order.side = "buy" THEN a.price - b.price ELSE b.price - a.price

\* the filter of matchMarketOrder: the whole opposing side
MarketEligible(order, o) == o.side = OpposingSide(order)

\* faulty variant of LimitEligible: an order at the limit price itself is
\* not taken
LimitEligibleStrict(order, o) ==
    /\ o.side = OpposingSide(order)
    /\ IF order.side = "buy" THEN o.price < order.price ELSE o.price > order.price

\* faulty variant of LimitEligible: the price test forgotten
LimitEligibleAnyPrice(order, o) == o.side = OpposingSide(order)

\* the filter of matchLimitOrder: the opposing side, at the limit or better
LimitEligible(order, o) ==
    IF o.side # OpposingSide(order) THEN FALSE
    ELSE IF order.side = "buy" THEN o.price <= order.price
    ELSE o.price >= order.price

\* faulty variant of InsertRef: an unstable sort, r goes before its equals
InsertRefUnstable(order, heap, sorted, r) ==
    LET after == {j \in 1..Len(sorted) : Compare(order, heap[sorted[j]], heap[r]) >= 0}
        k == IF after = {} THEN Len(sorted) + 1
             ELSE CHOOSE j \in after : \A j2 \in after : j <= j2
    IN SubSeq(sorted, 1, k - 1) \o <<r>> \o SubSeq(sorted, k, Len(sorted))

\* Array.prototype.sort is stable: r goes behind every element that does
\* not compare greater than it
InsertRef(order, heap, sorted, r) ==
    LET after == {j \in 1..Len(sorted) : Compare(order, heap[sorted[j]], heap[r]) > 0}
        k == IF after = {} THEN Len(sorted) + 1
             ELSE CHOOSE j \in after : \A j2 \in after : j <= j2
    IN SubSeq(sorted, 1, k - 1) \o <<r>> \o SubSeq(sorted, k, Len(sorted))

RECURSIVE SortRefs(_, _, _, _)
SortRefs(order, heap, refs, sorted) ==
    IF refs = << >> THEN sorted
    ELSE SortRefs(order, heap, Tail(refs), InsertRef(order, heap, sorted, Head(refs)))

\* this.orders.filter(...).sort(...) of matchMarketOrder, as refs
MarketOpposingOrders(order, heap) ==
    SortRefs(order, heap,
             SelectSeq([i \in 1..Len(heap) |-> i],
                       LAMBDA r : MarketEligible(order, heap[r])),
             << >>)

\* this.orders.filter(...).sort(...) of matchLimitOrder, as refs
LimitOpposingOrders(order, heap) ==
    SortRefs(order, heap,
             SelectSeq([i \in 1..Len(heap) |-> i],
                       LAMBDA r : LimitEligible(order, heap[r])),
             << >>)

\* faulty variant of TradeQuantity: the resting quantity not looked at
TradeQuantityNoMin(remainingQuantity, opposingOrder) == remainingQuantity

TradeQuantity(remainingQuantity, opposingOrder) ==
    Min(remainingQuantity, opposingOrder.quantity)

\* faulty variant of TradePrice: the taker's price
TradePriceTaker(order, opposingOrder) == order.price

TradePrice(order, opposingOrder) == opposingOrder.price

\* faulty variant of NewTrade: the incoming order is always the buyer
NewTradeTakerBuys(order, opposingOrder, seq, tradeQuantity) ==
    [id |-> seq,
     price |-> opposingOrder.price,
     quantity |-> tradeQuantity,
     side |-> order.side,
     buyer |-> order.id,
     seller |-> opposingOrder.id]

NewTrade(order, opposingOrder, seq, tradeQuantity) ==
    [id |-> seq,
     price |-> TradePrice(order, opposingOrder),
     quantity |-> tradeQuantity,
     side |-> order.side,
     buyer |-> IF order.side = "buy" THEN order.id ELSE opposingOrder.id,
     seller |-> IF order.side = "sell" THEN order.id ELSE opposingOrder.id]

\* faulty variant of IsFilled: an order of quantity zero is kept
IsFilledStrict(opposingOrder) == opposingOrder.quantity < 0

\* "Remove filled order": the test, and the filter by identifier
IsFilled(opposingOrder) == opposingOrder.quantity <= 0

RemoveById(book, heap, id) == SelectSeq(book, LAMBDA r : heap[r].id # id)

\* the start of the loop: nothing matched yet; heap holds the objects of
\* this.orders, book the refs this.orders holds
LoopStart(this, order) ==
    [remainingQuantity |-> order.quantity,
     heap |-> this.orders,
     book |-> [i \in 1..Len(this.orders) |-> i],
     newTrades |-> << >>,
     sequenceId |-> this.sequenceId,
     steps |-> << >>]

\* one iteration of the loop body, after the break test
MatchStep(order, ref, st) ==
    LET opposingOrder == st.heap[ref]
        tradeQuantity == TradeQuantity(st.remainingQuantity, opposingOrder)
        trade == NewTrade(order, opposingOrder, st.sequenceId, tradeQuantity)
        updated == [opposingOrder EXCEPT !.quantity = @ - tradeQuantity,
                                         !.filled = @ + tradeQuantity]
        heap2 == [st.heap EXCEPT ![ref] = updated]
        book2 == IF IsFilled(updated) THEN RemoveById(st.book, heap2, updated.id)
                 ELSE st.book
    IN [remainingQuantity |-> st.remainingQuantity - tradeQuantity,
        heap |-> heap2,
        book |-> book2,
        newTrades |-> Append(st.newTrades, trade),
        sequenceId |-> st.sequenceId + 1,
        steps |-> Append(st.steps,
                         [ref |-> ref,
                          trade |-> trade,
                          remBefore |-> st.remainingQuantity,
                          remAfter |-> st.remainingQuantity - tradeQuantity,
                          oppBefore |-> opposingOrder.quantity,
                          oppAfter |-> updated.quantity,
                          orig |-> updated.orig,
                          filledAfter |-> updated.filled,
                          inBook |-> \E i \in 1..Len(book2) : book2[i] = ref])]

\* faulty variant of MatchLoop: the walk ends after the first match
MatchLoopOnce(order, opposingOrders, st) ==
    IF opposingOrders = << >> THEN st
    ELSE IF st.remainingQuantity <= 0 THEN st
    ELSE MatchStep(order, Head(opposingOrders), st)

\* faulty variant of MatchLoop: the walk goes on when nothing is left to fill
RECURSIVE MatchLoopNoBreak(_, _, _)
MatchLoopNoBreak(order, opposingOrders, st) ==
    IF opposingOrders = << >> THEN st
    ELSE MatchLoopNoBreak(order, Tail(opposingOrders),
                          MatchStep(order, Head(opposingOrders), st))

\* for (const opposingOrder of opposingOrders) { if (remainingQuantity <= 0) break; ... }
RECURSIVE MatchLoop(_, _, _)
MatchLoop(order, opposingOrders, st) ==
    IF opposingOrders = << >> THEN st
    ELSE IF st.remainingQuantity <= 0 THEN st
    ELSE MatchLoop(order, Tail(opposingOrders),
                   MatchStep(order, Head(opposingOrders), st))

\* faulty variant of MarketRemainder: what is left of a market order rests
MarketRemainderRests(order, remainingQuantity) ==
    IF remainingQuantity > 0
    THEN Some([order EXCEPT !.quantity = remainingQuantity])
    ELSE Null

\* "return remainingQuantity > 0 ? null : null"
MarketRemainder(order, remainingQuantity) == Null

\* faulty variant of LimitRemainder: the order returned as it came
LimitRemainderWhole(order, remainingQuantity) ==
    IF remainingQuantity > 0 THEN Some(order) ELSE Null

\* "Return remaining order if any quantity left"
LimitRemainder(order, remainingQuantity) ==
    IF remainingQuantity > 0
    THEN Some([order EXCEPT !.quantity = remainingQuantity])
    ELSE Null

matchMarketOrder(this, order) ==
    LET st == MatchLoop(order, MarketOpposingOrders(order, this.orders),
                        LoopStart(this, order))
    IN [st |-> st, remainingOrder |-> MarketRemainder(order, st.remainingQuantity)]

matchLimitOrder(this, order) ==
    LET st == MatchLoop(order, LimitOpposingOrders(order, this.orders),
                        LoopStart(this, order))
    IN [st |-> st, remainingOrder |-> LimitRemainder(order, st.remainingQuantity)]

\* faulty variant of PushRemaining: the remainder goes to the head of the queue
PushRemainingFront(book, remainingOrder) ==
    IF remainingOrder # Null /\ remainingOrder[1].quantity > 0
    THEN <<Resting(remainingOrder[1])>> \o book
    ELSE book

\* "Add remaining order to book if it exists"
PushRemaining(book, remainingOrder) ==
    IF remainingOrder # Null /\ remainingOrder[1].quantity > 0
    THEN Append(book, Resting(remainingOrder[1]))
    ELSE book

\* the whole of addOrder on the engine instance this (its fields orders,
\* trades and sequenceId): the new engine state and the returned value;
\* heap holds the Order objects that were resting at the start as the call
\* leaves them, book the ones of them this.orders still holds
addOrder(this, order) ==
    LET m == IF order.type = "market" THEN matchMarketOrder(this, order)
             ELSE matchLimitOrder(this, order)
        book == [i \in 1..Len(m.st.book) |-> m.st.heap[m.st.book[i]]]
    IN [orders |-> PushRemaining(book, m.remainingOrder),
        trades |-> this.trades \o m.st.newTrades,
        sequenceId |-> m.st.sequenceId,
        steps |-> m.st.steps,
        heap |-> m.st.heap,
        book |-> m.st.book,
        ret |-> [trades |-> m.st.newTrades, remainingOrder |-> m.remainingOrder]]

\* ---------------------------------------------------------- the order book
\* the number of best levels getOrderBook returns per side: slice(0, 20)
BookDepth == 20

\* the position of the entry of priceMap whose key is price, 0 without one
MapIndex(priceMap, price) ==
    LET at == {k \in 1..Len(priceMap) : priceMap[k].price = price}
    IN IF at = {} THEN 0 ELSE CHOOSE k \in at : TRUE

\* faulty variant of MapSet: every order opens an entry of its own
MapSetAlwaysNew(priceMap, order) ==
    Append(priceMap, [price |-> order.price, quantity |-> 0 + order.quantity, count |-> 0 + 1])

\* priceMap.set(order.price, {existing.quantity + order.quantity,
\* existing.count + 1}), existing being {0, 0} for a new key; a Map keeps
\* its keys in the order of their first insertion
MapSet(priceMap, order) ==
    LET k == MapIndex(priceMap, order.price)
    IN IF k = 0
       THEN Append(priceMap,
                   [price |-> order.price, quantity |-> 0 + order.quantity, count |-> 0 + 1])
       ELSE [priceMap EXCEPT ![k] = [price |-> @.price,
                                     quantity |-> @.quantity + order.quantity,
                                     count |-> @.count + 1]]

\* sideOrders.forEach(order => { ... priceMap.set(...) }); the test of the
\* length makes TLC build each map before it walks on
RECURSIVE PriceMap(_, _)
PriceMap(sideOrders, priceMap) ==
    IF sideOrders = << >> THEN priceMap
    ELSE LET next == MapSet(priceMap, Head(sideOrders))
         IN IF Len(next) > 0 THEN PriceMap(Tail(sideOrders), next) ELSE next

\* faulty variant of LevelCompare: ascending for either side
LevelCompareAscending(side, a, b) == a.price - b.price

\* the comparator of levels.sort(): bids descending, asks ascending
LevelCompare(side, a, b) ==
    IF side = "buy" THEN b.price - a.price ELSE a.price - b.price

\* the stable sort, one insertion
InsertLevel(side, sorted, level) ==
    LET after == {j \in 1..Len(sorted) : LevelCompare(side, sorted[j], level) > 0}
        k == IF after = {} THEN Len(sorted) + 1
             ELSE CHOOSE j \in after : \A j2 \in after : j <= j2
    IN SubSeq(sorted, 1, k - 1) \o <<level>> \o SubSeq(sorted, k, Len(sorted))

RECURSIVE SortLevels(_, _, _)
SortLevels(side, levels, sorted) ==
    IF levels = << >> THEN sorted
    ELSE LET next == InsertLevel(side, sorted, Head(levels))
         IN IF Len(next) > 0 THEN SortLevels(side, Tail(levels), next) ELSE next

\* faulty variant of RunningTotals: the total of a level is its own quantity
RunningTotalsOwn(levels, runningTotal) ==
    [i \in 1..Len(levels) |->
        [price |-> levels[i].price, quantity |-> levels[i].quantity,
         count |-> levels[i].count, total |-> levels[i].quantity]]

\* "Calculate running totals": runningTotal += level.quantity;
\* level.total = runningTotal
RECURSIVE RunningTotals(_, _)
RunningTotals(levels, runningTotal) ==
    IF levels = << >> THEN << >>
    ELSE LET level == Head(levels)
             total == runningTotal + level.quantity
         IN <<[price |-> level.price, quantity |-> level.quantity,
               count |-> level.count, total |-> total]>>
            \o RunningTotals(Tail(levels), total)

aggregateOrdersByPrice(this, side) ==
    LET sideOrders == SelectSeq(this.orders, LAMBDA o : o.side = side)
        levels == PriceMap(sideOrders, << >>)
    IN RunningTotals(SortLevels(side, levels, << >>), 0)

\* faulty variant of Slice: the whole side
SliceAll(levels) == levels

\* levels.slice(0, 20)
Slice(levels) == SubSeq(levels, 1, Min(BookDepth, Len(levels)))

\* bids[0]?.price || 0: zero without a level, and zero for a price of zero
BestPrice(levels) ==
    IF levels = << >> THEN 0
    ELSE IF levels[1].price = 0 THEN 0
    ELSE levels[1].price

\* bestBid && bestAsk: a number is taken for true unless it is zero
Truthy(n) == n # 0

\* getOrderBook() on the engine instance this.  midPrice is kept in halves
\* of a price unit, the code's (bestBid + bestAsk) / 2 being no integer in
\* general: the value v stands for the number v / 2
getOrderBookOf(this) ==
    LET bids == aggregateOrdersByPrice(this, "buy")
        asks == aggregateOrdersByPrice(this, "sell")
        bestBid == BestPrice(bids)
        bestAsk == BestPrice(asks)
    IN [bids |-> Slice(bids),
        asks |-> Slice(asks),
        midPrice |-> IF Truthy(bestBid) /\ Truthy(bestAsk) THEN bestBid + bestAsk ELSE 0,
        spread |-> IF Truthy(bestAsk) /\ Truthy(bestBid) THEN bestAsk - bestBid ELSE 0]

\* getOrderBook() on the engine of the state
getOrderBook ==
    getOrderBookOf([orders |-> orders, trades |-> trades, sequenceId |-> sequenceId])

\* faulty variant of getTrades: the log as it is kept
getTradesOldestFirst == trades

\* getTrades(): [...this.trades].reverse()
getTrades == Reverse(trades)

\* faulty variant of TradesAfterGetTrades: reverse() on the log itself
TradesAfterGetTradesInPlace == Reverse(trades)

\* the log after getTrades(): reverse() works on the copy [...this.trades]
TradesAfterGetTrades == trades

\* getOrders(): [...this.orders]
getOrders == [i \in 1..Len(orders) |-> Core(orders[i])]

\* faulty variant of removeOrder: only the first order of that identifier
removeOrderFirst(orderId) ==
    LET at == {i \in 1..Len(orders) : orders[i].id = orderId}
    IN IF at = {} THEN orders
       ELSE LET k == CHOOSE i \in at : \A i2 \in at : i <= i2
            IN SubSeq(orders, 1, k - 1) \o SubSeq(orders, k + 1, Len(orders))

\* removeOrder(orderId): the filtered array
removeOrder(orderId) == SelectSeq(orders, LAMBDA o : o.id # orderId)

\* faulty variant of clear: the counter of trade numbers starts again
clearResetsSequence == [orders |-> << >>, trades |-> << >>, sequenceId |-> 0]

\* faulty variant of clear: the trade log is kept
clearKeepsTrades == [orders |-> << >>, trades |-> trades, sequenceId |-> sequenceId]

\* clear(): this.orders = []; this.trades = []; sequenceId is not assigned
clear == [orders |-> << >>, trades |-> << >>, sequenceId |-> sequenceId]

\* ------------------------------------------------------------ the machine
\* The engine is called from one thread: a call runs to completion and
\* returns before the next one starts.  op, arg, pre, ret and steps record
\* the last call until Return hands its result to the caller; a read may
\* be repeated before that.
PreState == [orders |-> orders, trades |-> trades, sequenceId |-> sequenceId]

NoCall == [orders |-> << >>, trades |-> << >>, sequenceId |-> 0]

\* what a caller may hand to getOrderBook as the depth he wants (Null:
\* nothing); the method declares no parameter, the value is dropped
DepthArgs == {Null, Some(1), Some(2), Some(BookDepth + 1)}

MaxOf(S) == CHOOSE x \in S : \A y \in S : y <= x

\* the initial state of the store (initialOrderBook, initialOrderForm)
initialOrderBook == [bids |-> << >>, asks |-> << >>, midPrice |-> 0, spread |-> 0]

initialOrderForm == [side |-> "buy", type |-> "limit", price |-> "", quantity |-> ""]

StoreInit ==
    [orderBook |-> initialOrderBook,
     trades |-> << >>,
     isConnected |-> FALSE,
     isPaused |-> FALSE,
     currentOrder |-> initialOrderForm,
     isOrderModalOpen |-> FALSE]

\* the fields of a new FakeSocket; currentPrice and config only shape the
\* random numbers of the updates and are left out
SocketInit ==
    [subscribers |-> {}, intervalId |-> Null, isRunning |-> FALSE, sequenceId |-> 0]

\* the number of initializeSocket() calls in one run
MaxConns == 2
Conns == 1..MaxConns

\* last records the action, its argument, the functions it called in the
\* order of the calls, and who wrote store.orderBook last
NoAction == [act |-> "none", input |-> Null, called |-> << >>, bookFrom |-> "initial"]

\* nothing is kept, the store and the socket are new, no closure exists
OutsideInit ==
    /\ held = Null
    /\ store = StoreInit
    /\ socket = SocketInit
    /\ timers = {}
    /\ conns = [c \in Conns |-> "none"]
    /\ last = NoAction

Init ==
    /\ orders = << >>
    /\ trades = << >>
    /\ sequenceId = 0
    /\ op = "idle"
    /\ arg = Null
    /\ pre = NoCall
    /\ ret = Null
    /\ steps = << >>
    /\ calls = 0
    /\ issued = 0 - 1
    /\ again = FALSE
    /\ OutsideInit

\* one call of addOrder(order)
CallAddOrder(order) ==
    LET r == addOrder(PreState, order)
    IN /\ orders' = r.orders
       /\ trades' = r.trades
       /\ sequenceId' = r.sequenceId
       /\ op' = "addOrder"
       /\ arg' = order
       /\ pre' = PreState
       /\ ret' = r.ret
       /\ steps' = r.steps
       /\ issued' = MaxOf({issued} \cup {r.ret.trades[j].id : j \in 1..Len(r.ret.trades)})
       /\ again' = FALSE

\* one call of removeOrder(orderId)
CallRemoveOrder(orderId) ==
    /\ orders' = removeOrder(orderId)
    /\ op' = "removeOrder"
    /\ arg' = orderId
    /\ pre' = PreState
    /\ ret' = (Len(removeOrder(orderId)) < Len(orders))
    /\ steps' = << >>
    /\ again' = FALSE
    /\ UNCHANGED <<trades, sequenceId, issued>>

\* one call of clear()
CallClear ==
    /\ orders' = clear.orders
    /\ trades' = clear.trades
    /\ sequenceId' = clear.sequenceId
    /\ op' = "clear"
    /\ arg' = Null
    /\ pre' = PreState
    /\ ret' = Null
    /\ steps' = << >>
    /\ again' = FALSE
    /\ UNCHANGED issued

AddOrder ==
    /\ op = "idle"
    /\ calls < MaxCalls
    /\ calls' = calls + 1
    /\ \E order \in OrderInputs : CallAddOrder(order)
    /\ UNCHANGED outside

RemoveOrder ==
    /\ op = "idle"
    /\ calls < MaxCalls
    /\ calls' = calls + 1
    /\ \E orderId \in Ids : CallRemoveOrder(orderId)
    /\ UNCHANGED outside

Clear ==
    /\ op = "idle"
    /\ calls < MaxCalls
    /\ calls' = calls + 1
    /\ CallClear
    /\ UNCHANGED outside

GetTrades ==
    /\ op \in {"idle", "getTrades"}
    /\ op' = "getTrades"
    /\ arg' = Null
    /\ pre' = PreState
    /\ ret' = getTrades
    /\ trades' = TradesAfterGetTrades
    /\ steps' = << >>
    /\ again' = (op = "getTrades")
    /\ UNCHANGED <<orders, sequenceId, calls, issued>>
    /\ UNCHANGED outside

GetOrders ==
    /\ op = "idle"
    /\ op' = "getOrders"
    /\ arg' = Null
    /\ pre' = PreState
    /\ ret' = getOrders
    /\ steps' = << >>
    /\ again' = FALSE
    /\ UNCHANGED <<orders, trades, sequenceId, calls, issued>>
    /\ UNCHANGED outside

\* one call of getOrderBook, the caller asking for depth levels (Null: he
\* names no depth)
CallGetOrderBook(depth) ==
    /\ op \in {"idle", "getOrderBook"}
    /\ op' = "getOrderBook"
    /\ arg' = depth
    /\ pre' = PreState
    /\ ret' = getOrderBook
    /\ steps' = << >>
    /\ again' = (op = "getOrderBook" /\ arg = depth)
    /\ UNCHANGED <<orders, trades, sequenceId, calls, issued>>
    /\ UNCHANGED outside

GetOrderBook == CallGetOrderBook(Null)

\* the call returns: the caller has the result, the engine waits
Return ==
    /\ op # "idle"
    /\ op' = "idle"
    /\ arg' = Null
    /\ pre' = NoCall
    /\ ret' = Null
    /\ steps' = << >>
    /\ again' = FALSE
    /\ UNCHANGED <<orders, trades, sequenceId, calls, issued>>
    /\ UNCHANGED outside

Next ==
    AddOrder \/ RemoveOrder \/ Clear \/ GetTrades \/ GetOrders \/ GetOrderBook \/ Return

Spec == Init /\ [][Next]_vars

\* ------------------------------------------- long runs of small orders
\* The same engine, called more often with fewer different orders: runs
\* long enough for trades on both sides of a clear().
MaxCallsLong == 5

LongInputs ==
    [id : {"a"}, price : {1}, quantity : {1, 2}, side : Sides, type : Types]

LongAddOrder ==
    /\ op = "idle"
    /\ calls < MaxCallsLong
    /\ calls' = calls + 1
    /\ \E order \in LongInputs : CallAddOrder(order)
    /\ UNCHANGED outside

LongRemoveOrder ==
    /\ op = "idle"
    /\ calls < MaxCallsLong
    /\ calls' = calls + 1
    /\ CallRemoveOrder("a")
    /\ UNCHANGED outside

LongClear ==
    /\ op = "idle"
    /\ calls < MaxCallsLong
    /\ calls' = calls + 1
    /\ CallClear
    /\ UNCHANGED outside

NextLong ==
    LongAddOrder \/ LongRemoveOrder \/ LongClear \/ GetTrades \/ GetOrders
        \/ GetOrderBook \/ Return

SpecLong == Init /\ [][NextLong]_vars

\* ------------------------------------------------------- a deep order book
\* getOrderBook() on books of more price levels than it returns.  The
\* resting set holds nb bids at the prices 1..nb, entered from the lowest
\* up, and na asks at the prices nb+1..nb+na, entered from the highest
\* down, with a second order at the best price of either side when
\* doubled: none of these orders crosses another, so addOrder rests them
\* in this order.
MaxLevels == 22

DeepBids(nb) ==
    [i \in 1..nb |->
        Resting([id |-> "a", price |-> i, quantity |-> 1, side |-> "buy", type |-> "limit"])]

DeepAsks(nb, na) ==
    [i \in 1..na |->
        Resting([id |-> "b", price |-> nb + na + 1 - i, quantity |-> 2, side |-> "sell",
                 type |-> "limit"])]

DeepDoubled(nb, na) ==
    (IF nb > 0
     THEN <<Resting([id |-> "c", price |-> nb, quantity |-> 1, side |-> "buy",
                     type |-> "limit"])>>
     ELSE << >>)
    \o (IF na > 0
        THEN <<Resting([id |-> "c", price |-> nb + 1, quantity |-> 1, side |-> "sell",
                        type |-> "limit"])>>
        ELSE << >>)

InitDeep ==
    /\ \E nb, na \in 0..MaxLevels, doubled \in BOOLEAN :
          orders = DeepBids(nb) \o DeepAsks(nb, na)
                   \o (IF doubled THEN DeepDoubled(nb, na) ELSE << >>)
    /\ trades = << >>
    /\ sequenceId = 0
    /\ op = "idle"
    /\ arg = Null
    /\ pre = NoCall
    /\ ret = Null
    /\ steps = << >>
    /\ calls = 0
    /\ issued = 0 - 1
    /\ again = FALSE
    /\ OutsideInit

DeepGetOrderBook == \E depth \in DepthArgs : CallGetOrderBook(depth)

NextDeep == DeepGetOrderBook \/ Return

SpecDeep == InitDeep /\ [][NextDeep]_vars

\* ------------------------------------------- a caller who keeps results
\* JavaScript hands out references.  An object a call returns is either
\* made for the caller ("own": nothing else holds it) or one the engine
\* goes on using: the Order object at a place of this.orders ("order") or
\* the array this.trades itself ("log").  A kept reference records the
\* value seen through it when the call returned (was) and the value seen
\* through it now (now).
Own == [kind |-> "own", place |-> 0]
OrderAt(k) == [kind |-> "order", place |-> k]
Log == [kind |-> "log", place |-> 0]

Ref(value, at) == [was |-> value, now |-> value, at |-> at]

\* addOrder returns remainingOrder, the object it has just pushed onto
\* this.orders when its quantity is > 0 (lines 19-26)
addOrderRefs ==
    IF ret.remainingOrder = Null THEN << >>
    ELSE IF ret.remainingOrder[1].quantity > 0
         THEN <<Ref(ret.remainingOrder[1], OrderAt(Len(orders)))>>
         ELSE <<Ref(ret.remainingOrder[1], Own)>>

\* getOrders returns [...this.orders]: a new array of the same objects
getOrdersRefs == [i \in 1..Len(orders) |-> Ref(Core(orders[i]), OrderAt(i))]

\* faulty variant of getTradesRefs: the log itself is returned
getTradesRefsLog == <<Ref(ret, Log)>>

\* getTrades returns [...this.trades].reverse(): a new array; the Trade
\* objects in it are the ones of the log, which nothing assigns to
getTradesRefs == <<Ref(ret, Own)>>

\* getOrderBook returns a new object whose levels are built by map()
getOrderBookRefs == <<Ref(ret, Own)>>

\* what the caller can keep of the call that is returning
Kept ==
    [op |-> op,
     refs |-> CASE op = "addOrder" -> addOrderRefs
                [] op = "getOrders" -> getOrdersRefs
                [] op = "getTrades" -> getTradesRefs
                [] op = "getOrderBook" -> getOrderBookRefs]

\* a kept reference after addOrder has run with result r: the Order object
\* was decremented in place, and filter() may have dropped it from
\* this.orders; push() has extended the log in place
ThroughAddOrder(ref, r) ==
    CASE ref.at.kind = "order" ->
           LET p == ref.at.place
               at == {k \in 1..Len(r.book) : r.book[k] = p}
           IN [was |-> ref.was,
               now |-> Core(r.heap[p]),
               at |-> IF at = {} THEN Own ELSE OrderAt(CHOOSE k \in at : TRUE)]
      [] ref.at.kind = "log" -> [ref EXCEPT !.now = r.trades]
      [] OTHER -> ref

\* after removeOrder(orderId): the object is dropped from this.orders or
\* moves up
ThroughRemoveOrder(ref, orderId) ==
    IF ref.at.kind # "order" THEN ref
    ELSE IF orders[ref.at.place].id = orderId THEN [ref EXCEPT !.at = Own]
    ELSE [ref EXCEPT !.at =
            OrderAt(Cardinality({x \in 1..ref.at.place : orders[x].id # orderId}))]

\* after clear(): this.orders and this.trades are new arrays, the old
\* objects are the caller's alone
ThroughClear(ref) == [ref EXCEPT !.at = Own]

HeldThrough(Through(_)) ==
    IF held = Null THEN Null
    ELSE [held EXCEPT !.refs = [i \in 1..Len(held.refs) |-> Through(held.refs[i])]]

\* the variables of the store, the form and the feed
ui == <<store, socket, timers, conns, last>>

MaxCallsHeld == 4

HeldInputs ==
    [id : {"a", "b"}, price : {1}, quantity : {1, 2}, side : Sides, type : Types]

HeldAddOrder ==
    /\ op = "idle"
    /\ calls < MaxCallsHeld
    /\ calls' = calls + 1
    /\ \E order \in HeldInputs :
          /\ CallAddOrder(order)
          /\ held' = HeldThrough(LAMBDA ref : ThroughAddOrder(ref, addOrder(PreState, order)))
    /\ UNCHANGED ui

HeldRemoveOrder ==
    /\ op = "idle"
    /\ calls < MaxCallsHeld
    /\ calls' = calls + 1
    /\ \E orderId \in {"a", "b"} :
          /\ CallRemoveOrder(orderId)
          /\ held' = HeldThrough(LAMBDA ref : ThroughRemoveOrder(ref, orderId))
    /\ UNCHANGED ui

HeldClear ==
    /\ op = "idle"
    /\ calls < MaxCallsHeld
    /\ calls' = calls + 1
    /\ CallClear
    /\ held' = HeldThrough(ThroughClear)
    /\ UNCHANGED ui

\* the call returns and the caller keeps the result, dropping what he kept
\* before
ReturnKeeping ==
    /\ op \in {"addOrder", "getOrders", "getTrades", "getOrderBook"}
    /\ held' = Kept
    /\ op' = "idle"
    /\ arg' = Null
    /\ pre' = NoCall
    /\ ret' = Null
    /\ steps' = << >>
    /\ again' = FALSE
    /\ UNCHANGED <<orders, trades, sequenceId, calls, issued>>
    /\ UNCHANGED ui

NextHeld ==
    HeldAddOrder \/ HeldRemoveOrder \/ HeldClear \/ GetTrades \/ GetOrders
        \/ GetOrderBook \/ Return \/ ReturnKeeping

SpecHeld == Init /\ [][NextHeld]_vars
\* ------------------------------------------------ the store and the feed
\* The code outside the engine runs on the JavaScript event loop: a store
\* action or a timer callback runs to completion before the next starts.
\* Its functions are written as operators on a world w -- the store state,
\* the FakeSocket fields, the pending timeouts, the orderMatcher singleton
\* and the list of functions called so far -- so that an action is one
\* such function applied to the current world.
World ==
    [store |-> store, socket |-> socket, timers |-> timers,
     engine |-> PreState, called |-> << >>]

Called(w, name) == [w EXCEPT !.called = Append(@, name)]

\* F applied to the world w, w being worked out first and once
Then(w, F(_)) == CHOOSE after \in {F(v) : v \in {w}} : TRUE

\* the store keeps the newest trades only: slice(0, 100)
TradesKept == 100

setOrderBook(w, orderBook) ==
    [Called(w, "setOrderBook") EXCEPT !.store.orderBook = orderBook]

\* faulty variant of addTrade: the list is not cut
addTradeUncut(w, trade) ==
    [Called(w, "addTrade") EXCEPT !.store.trades = <<trade>> \o @]

\* faulty variant of addTrade: the trade is put at the end
addTradeLast(w, trade) ==
    [Called(w, "addTrade") EXCEPT
        !.store.trades = SubSeq(@ \o <<trade>>, 1, Min(TradesKept, Len(@) + 1))]

addTrade(w, trade) ==
    [Called(w, "addTrade") EXCEPT
        !.store.trades = SubSeq(<<trade>> \o @, 1, Min(TradesKept, Len(@) + 1))]

setConnection(w, connected) ==
    [Called(w, "setConnection") EXCEPT !.store.isConnected = connected]

\* setTimeout hands out a handle that is not in use
NewTimer(w) ==
    CHOOSE h \in 1..(Cardinality(w.timers) + 2) :
        h \notin w.timers /\ w.socket.intervalId # Some(h)

\* FakeSocket.scheduleNextUpdate
scheduleNextUpdate(w) ==
    IF ~ w.socket.isRunning THEN w
    ELSE [w EXCEPT !.socket.intervalId = Some(NewTimer(w)),
                   !.timers = @ \cup {NewTimer(w)}]

\* FakeSocket.start
start(w) ==
    IF w.socket.isRunning THEN Called(w, "start")
    ELSE scheduleNextUpdate([Called(w, "start") EXCEPT !.socket.isRunning = TRUE])

\* FakeSocket.stop
stop(w) ==
    LET c == Called(w, "stop")
        cleared == IF c.socket.intervalId # Null
                   THEN [c EXCEPT !.timers = @ \ {c.socket.intervalId[1]},
                                  !.socket.intervalId = Null]
                   ELSE c
    IN [cleared EXCEPT !.socket.isRunning = FALSE]

\* FakeSocket.subscribe(cb); the callback cb is named by the closure of
\* initializeSocket that made it
subscribe(w, cb) ==
    LET added == [Called(w, "subscribe") EXCEPT !.socket.subscribers = @ \cup {cb}]
    IN IF ~ added.socket.isRunning THEN start(added) ELSE added

\* the function subscribe returns
unsubscribe(w, cb) ==
    LET deleted == [Called(w, "unsubscribe") EXCEPT !.socket.subscribers = @ \ {cb}]
    IN IF deleted.socket.subscribers = {} /\ deleted.socket.isRunning
       THEN stop(deleted) ELSE deleted

\* faulty variant of callback: the pause flag is not read
callbackUnpaused(w, message) ==
    IF message.type = "orderbook" THEN setOrderBook(Called(w, "callback"), message.data)
    ELSE addTrade(Called(w, "callback"), message.data)

\* the callback initializeSocket subscribes with
callback(w, message) ==
    IF w.store.isPaused THEN Called(w, "callback")
    ELSE IF message.type = "orderbook"
         THEN setOrderBook(Called(w, "callback"), message.data)
    ELSE IF message.type = "trade"
         THEN addTrade(Called(w, "callback"), message.data)
    ELSE Called(w, "callback")

\* FakeSocket.broadcast: every subscriber is called; callbacks holds the
\* subscribers still to call
RECURSIVE broadcast(_, _, _)
broadcast(w, message, callbacks) ==
    IF callbacks = {} THEN w
    ELSE LET cb == CHOOSE c \in callbacks : \A d \in callbacks : c <= d
         IN broadcast(callback(w, message), message, callbacks \ {cb})

\* the random numbers of an update are drawn from a small set; an update
\* of the book is cut to one level per side
FeedDraws == {1, 2}

FeedBook(draw) ==
    [bids |-> <<[price |-> draw, quantity |-> 1, total |-> 1, count |-> draw]>>,
     asks |-> <<[price |-> draw + 1, quantity |-> 1, total |-> 1, count |-> draw]>>,
     midPrice |-> draw + (draw + 1),
     spread |-> 1]

FeedTrade(n, draw) ==
    [id |-> n, price |-> draw, quantity |-> 1,
     side |-> IF draw = 1 THEN "buy" ELSE "sell"]

\* FakeSocket.generateOrderBookUpdate
generateOrderBookUpdate(w, draw) ==
    broadcast(Called(w, "generateOrderBookUpdate"),
              [type |-> "orderbook", data |-> FeedBook(draw)],
              w.socket.subscribers)

\* faulty variant of generateTradeUpdate: the number of the trade is taken
\* from the counter of the engine
generateTradeUpdateEngineCounter(w, draw) ==
    broadcast([Called(w, "generateTradeUpdate") EXCEPT !.engine.sequenceId = @ + 1],
              [type |-> "trade", data |-> FeedTrade(w.engine.sequenceId, draw)],
              w.socket.subscribers)

\* FakeSocket.generateTradeUpdate: `trade_${this.sequenceId++}`
generateTradeUpdate(w, draw) ==
    broadcast([Called(w, "generateTradeUpdate") EXCEPT !.socket.sequenceId = @ + 1],
              [type |-> "trade", data |-> FeedTrade(w.socket.sequenceId, draw)],
              w.socket.subscribers)

\* FakeSocket.generateUpdate: Math.random() picks the kind of update
UpdateTypes == {"orderbook", "trade"}

generateUpdate(w, updateType, draw) ==
    IF updateType = "orderbook" THEN generateOrderBookUpdate(w, draw)
    ELSE generateTradeUpdate(w, draw)

\* the function given to setTimeout, when the timeout h fires
timeout(w, h, updateType, draw) ==
    Then(Then([Called(w, "timeout") EXCEPT !.timers = @ \ {h}],
              LAMBDA v : generateUpdate(v, updateType, draw)),
         scheduleNextUpdate)

\* useExchangeStore.togglePause
togglePause(w) ==
    LET toggled == [Called(w, "togglePause") EXCEPT !.store.isPaused = ~ w.store.isPaused]
    IN IF w.store.isPaused THEN start(toggled) ELSE stop(toggled)

\* useExchangeStore.clearTrades
clearTrades(w) == [Called(w, "clearTrades") EXCEPT !.store.trades = << >>]

\* connect() and disconnect() of initializeSocket; unsubscribe is the
\* variable of the closure, subscribed whether it is set
connect(w, cb) == subscribe(setConnection(Called(w, "connect"), TRUE), cb)

disconnect(w, cb, subscribed) ==
    LET d == setConnection(Called(w, "disconnect"), FALSE)
    IN IF subscribed THEN unsubscribe(d, cb) ELSE d

\* ------------------------------------------------------------ submitOrder
\* what a text field can hold
Texts == {"", "abc", "-1", "0", "1", "2x"}

\* a JavaScript number: NaN, or an integer
NaN == [nan |-> TRUE, n |-> 0]
Num(n) == [nan |-> FALSE, n |-> n]

\* parseFloat: the longest numeric prefix, NaN without one
parseFloat(text) ==
    CASE text = "-1" -> Num(0 - 1)
      [] text = "0" -> Num(0)
      [] text = "1" -> Num(1)
      [] text = "2x" -> Num(2)
      [] OTHER -> NaN

\* x || 0: NaN and 0 are falsy
OrZero(x) == IF x.nan \/ x.n = 0 THEN 0 ELSE x.n

\* x <= 0: false for NaN
LeqZero(x) == ~ x.nan /\ x.n <= 0

\* what can be given to submitOrder
OrderData == [side : Sides, type : Types, price : Texts, quantity : Texts]

RECURSIVE addTrades(_, _)
addTrades(w, newTrades) ==
    IF newTrades = << >> THEN w
    ELSE addTrades(addTrade(w, Head(newTrades)), Tail(newTrades))

\* the order submitOrder builds
OrderOf(orderData, id) ==
    [id |-> id,
     price |-> IF orderData.type = "market" THEN 0
               ELSE OrZero(parseFloat(orderData.price)),
     quantity |-> OrZero(parseFloat(orderData.quantity)),
     side |-> orderData.side,
     type |-> orderData.type]

\* submitOrder once engine.addOrder has returned r: the engine is as the
\* call left it and each trade of the result goes through addTrade
Traded(w, r) ==
    addTrades([Called(w, "addOrder") EXCEPT
                  !.engine = [orders |-> r.orders, trades |-> r.trades,
                              sequenceId |-> r.sequenceId]],
              r.ret.trades)

\* the end of submitOrder: the engine's book is stored, the form is reset
\* and closed
Booked(w) ==
    [setOrderBook(Called(w, "getOrderBook"), getOrderBookOf(w.engine)) EXCEPT
        !.store.currentOrder = initialOrderForm,
        !.store.isOrderModalOpen = FALSE]

\* faulty variant of submitOrder: the order is not validated
submitOrderUnchecked(w, orderData, id) ==
    Booked(Traded(Called(w, "submitOrder"),
                  addOrder(w.engine, OrderOf(orderData, id))))

\* useExchangeStore.submitOrder(orderData); id is the identifier it makes up
submitOrder(w, orderData, id) ==
    LET order == OrderOf(orderData, id)
    IN IF order.quantity <= 0 THEN Called(w, "submitOrder")
       ELSE IF order.type = "limit" /\ order.price <= 0 THEN Called(w, "submitOrder")
       ELSE Booked(Traded(Called(w, "submitOrder"), addOrder(w.engine, order)))

\* whether the function name is among those called
Reached(called, name) == \E i \in 1..Len(called) : called[i] = name

\* who wrote store.orderBook last, after an action that called these
BookFrom(called) ==
    IF Reached(called, "setOrderBook")
    THEN (IF Reached(called, "submitOrder") THEN "engine" ELSE "feed")
    ELSE last.bookFrom

\* the world w becomes the state
Becomes(w, act, input) ==
    /\ orders' = w.engine.orders
    /\ trades' = w.engine.trades
    /\ sequenceId' = w.engine.sequenceId
    /\ store' = w.store
    /\ socket' = w.socket
    /\ timers' = w.timers
    /\ last' = [act |-> act, input |-> input, called |-> w.called,
                bookFrom |-> BookFrom(w.called)]

\* Date.now() and Math.random() make the identifier of each order its own
OrderIds == <<"a", "b", "c", "d">>

\* the number of submitOrder calls that reach the engine in one run
MaxSubmits == 2

\* one call of submitOrder; no engine method is left waiting
CallSubmitOrder(act, orderData, Submit(_)) ==
    /\ op = "idle"
    /\ calls < MaxSubmits
    /\ \E w \in {Submit(World)} : Becomes(w, act, orderData)
    /\ calls' = (IF Reached(last'.called, "addOrder") THEN calls + 1 ELSE calls)
    /\ issued' = MaxOf({issued} \cup {trades'[j].id : j \in 1..Len(trades')})
    /\ UNCHANGED <<op, arg, pre, ret, steps, again, held>>

\* ------------------------------------------------------ the order form
\* the value of an <input type="number"> in which typed was entered: the
\* text if it is a number, and empty otherwise
NumberInputValue(typed) ==
    IF typed \in {"-1", "0", "1"} THEN typed ELSE ""

\* faulty variant of validateForm: only empty fields are refused
validateFormRequired(currentOrder) ==
    /\ currentOrder.quantity # ""
    /\ currentOrder.type = "limit" => currentOrder.price # ""

\* OrderEntryForm.validateForm: whether no error was found; the error
\* texts it sets are shown by the component and read by nothing else
validateForm(currentOrder) ==
    /\ ~ (currentOrder.quantity = "" \/ LeqZero(parseFloat(currentOrder.quantity)))
    /\ ~ (currentOrder.type = "limit"
          /\ (currentOrder.price = "" \/ LeqZero(parseFloat(currentOrder.price))))

\* OrderEntryForm.handleSubmit
handleSubmit(w, id) ==
    LET c == Called(Called(w, "handleSubmit"), "validateForm")
    IN IF validateForm(c.store.currentOrder)
       THEN submitOrder(c, c.store.currentOrder, id)
       ELSE c

\* useExchangeStore.updateOrderForm(data), data naming one field
updateOrderForm(w, field, value) ==
    [Called(w, "updateOrderForm") EXCEPT !.store.currentOrder[field] = value]

\* useExchangeStore.setOrderModalOpen
setOrderModalOpen(w, open) ==
    [Called(w, "setOrderModalOpen") EXCEPT !.store.isOrderModalOpen = open]

\* the engine is not touched
EngineKept == UNCHANGED <<op, arg, pre, ret, steps, calls, issued, again, held>>

\* the user edits a field of the open form; the side is left as it is
UpdateOrderForm ==
    /\ store.isOrderModalOpen
    /\ \E field \in {"type", "price", "quantity"} :
       \E value \in (CASE field = "type" -> Types
                      [] OTHER -> {NumberInputValue(typed) : typed \in Texts}) :
       \E w \in {updateOrderForm(World, field, value)} :
          Becomes(w, "updateOrderForm", Null)
    /\ EngineKept
    /\ UNCHANGED conns

SetOrderModalOpen ==
    /\ \E open \in BOOLEAN :
       \E w \in {setOrderModalOpen(World, open)} :
          Becomes(w, "setOrderModalOpen", Null)
    /\ EngineKept
    /\ UNCHANGED conns

\* the user submits the open form
HandleSubmit ==
    /\ store.isOrderModalOpen
    /\ CallSubmitOrder("handleSubmit", store.currentOrder,
                       LAMBDA w : handleSubmit(w, OrderIds[calls + 1]))
    /\ UNCHANGED conns

\* submitOrder is called with any texts, for a sell order
SubmitOrder ==
    /\ \E orderData \in {d \in OrderData : d.side = "sell"} :
          CallSubmitOrder("submitOrder", orderData,
                          LAMBDA w : submitOrder(w, orderData, OrderIds[calls + 1]))
    /\ UNCHANGED conns

NextForm == UpdateOrderForm \/ SetOrderModalOpen \/ HandleSubmit \/ SubmitOrder

SpecForm == Init /\ [][NextForm]_vars

\* ------------------------------------------------------------- the feed
\* the number of trades the feed makes up in one run
MaxFeedTrades == 2

\* what submitOrder is given while the feed runs: orders it accepts
FeedOrderData == [side : Sides, type : Types, price : {"1"}, quantity : {"1", "2x"}]

FeedSubmitOrder ==
    /\ \E orderData \in FeedOrderData :
          CallSubmitOrder("submitOrder", orderData,
                          LAMBDA w : submitOrder(w, orderData, OrderIds[calls + 1]))
    /\ UNCHANGED conns

\* the application calls initializeSocket(): a new closure, which connects
InitializeSocket ==
    /\ \E c \in Conns :
          /\ conns[c] = "none"
          /\ \A d \in Conns : d < c => conns[d] # "none"
          /\ \E w \in {connect(Called(World, "initializeSocket"), c)} :
                Becomes(w, "initializeSocket", c)
          /\ conns' = [conns EXCEPT ![c] = "subscribed"]
    /\ EngineKept

\* the function initializeSocket returned is called: disconnect()
Cleanup ==
    /\ \E c \in Conns :
          /\ conns[c] # "none"
          /\ \E w \in {disconnect(Called(World, "cleanup"), c, conns[c] = "subscribed")} :
                Becomes(w, "cleanup", c)
          /\ conns' = [conns EXCEPT ![c] = "unsubscribed"]
    /\ EngineKept

TogglePause ==
    /\ \E w \in {togglePause(World)} : Becomes(w, "togglePause", Null)
    /\ EngineKept
    /\ UNCHANGED conns

ClearTrades ==
    /\ \E w \in {clearTrades(World)} : Becomes(w, "clearTrades", Null)
    /\ EngineKept
    /\ UNCHANGED conns

\* a pending timeout fires
Timeout ==
    /\ \E h \in timers, updateType \in UpdateTypes, draw \in FeedDraws :
          /\ updateType = "trade" => socket.sequenceId < MaxFeedTrades
          /\ \E w \in {timeout(World, h, updateType, draw)} :
                Becomes(w, "timeout", updateType)
    /\ EngineKept
    /\ UNCHANGED conns

NextFeed ==
    FeedSubmitOrder \/ InitializeSocket \/ Cleanup \/ TogglePause \/ ClearTrades
        \/ Timeout

SpecFeed == Init /\ [][NextFeed]_vars

\* ============================================================ subscribers
\* FakeSocket on its own, with any subscribers: a subscriber's callback may
\* return, throw, or call back into the socket while the message is being
\* broadcast. SpecSocket interleaves subscribe, the functions subscribe
\* returned, start, stop and the firing of pending timeouts.

\* what a subscriber's callback does with a message
Reactions == {"return", "throw", "stop", "start", "restart", "unsubscribe"}

\* the callback of the subscriber cb, as the log of calls names it
SubscriberName(cb) == "subscriber" \o ToString(cb)

\* the callback of the subscriber cb is called with a message
subscriber(w, cb, reaction) ==
    CASE reaction = "stop" -> stop(Called(w, SubscriberName(cb)))
      [] reaction = "start" -> start(Called(w, SubscriberName(cb)))
      [] reaction = "restart" -> start(stop(Called(w, SubscriberName(cb))))
      [] reaction = "unsubscribe" -> unsubscribe(Called(w, SubscriberName(cb)), cb)
      [] OTHER -> Called(w, SubscriberName(cb))

\* faulty variant of forEach: no try/catch, the first callback that throws
\* ends the loop
RECURSIVE forEachNoCatch(_, _, _)
forEachNoCatch(w, visited, react) ==
    IF w.socket.subscribers \ visited = {} THEN w
    ELSE LET cb == CHOOSE c \in w.socket.subscribers \ visited :
                       \A d \in w.socket.subscribers \ visited : c <= d
         IN IF react[cb] = "throw" THEN subscriber(w, cb, react[cb])
            ELSE forEachNoCatch(subscriber(w, cb, react[cb]), visited \cup {cb}, react)

\* this.subscribers.forEach(callback => { try ... catch ... }): the Set is
\* walked in the order of insertion, which is the order of the subscribers'
\* numbers; a subscriber deleted before its turn is not called; visited
\* holds those called already, react what each callback does
RECURSIVE forEach(_, _, _)
forEach(w, visited, react) ==
    IF w.socket.subscribers \ visited = {} THEN w
    ELSE LET cb == CHOOSE c \in w.socket.subscribers \ visited :
                       \A d \in w.socket.subscribers \ visited : c <= d
         IN forEach(IF react[cb] = "throw"
                    THEN Called(subscriber(w, cb, react[cb]), "console.error")
                    ELSE subscriber(w, cb, react[cb]),
                    visited \cup {cb}, react)

\* FakeSocket.broadcast, to subscribers of any kind
broadcastAny(w, react) == forEach(Called(w, "broadcast"), {}, react)

\* FakeSocket.generateUpdate, to subscribers of any kind; what the message
\* holds is left out, a trade update takes the next sequenceId
generateUpdateAny(w, updateType, react) ==
    IF updateType = "orderbook"
    THEN broadcastAny(Called(w, "generateOrderBookUpdate"), react)
    ELSE broadcastAny([Called(w, "generateTradeUpdate") EXCEPT
                          !.socket.sequenceId = @ + 1], react)

\* faulty variant of timeoutAny: the next update is not scheduled
timeoutAnyOnce(w, h, updateType, react) ==
    Then([Called(w, "timeout") EXCEPT !.timers = @ \ {h}],
         LAMBDA v : generateUpdateAny(v, updateType, react))

\* the function given to setTimeout, when the timeout h fires
timeoutAny(w, h, updateType, react) ==
    Then(Then([Called(w, "timeout") EXCEPT !.timers = @ \ {h}],
              LAMBDA v : generateUpdateAny(v, updateType, react)),
         LAMBDA v : scheduleNextUpdate(Called(v, "scheduleNextUpdate")))

\* the timeouts pending at once, in one run
MaxTimers == 3

\* a closure is unsubscribed once its callback has left the Set
ConnsOf(w) ==
    [c \in Conns |-> IF conns[c] = "subscribed" /\ c \notin w.socket.subscribers
                     THEN "unsubscribed" ELSE conns[c]]

\* fakeSocket.subscribe(callback) with a new callback
Subscribe ==
    /\ \E c \in Conns :
          /\ conns[c] = "none"
          /\ \A d \in Conns : d < c => conns[d] # "none"
          /\ \E w \in {subscribe(World, c)} : Becomes(w, "subscribe", c)
          /\ conns' = [conns EXCEPT ![c] = "subscribed"]
    /\ EngineKept

\* a function subscribe returned is called, for the first time or again
Unsubscribe ==
    /\ \E c \in Conns :
          /\ conns[c] # "none"
          /\ \E w \in {unsubscribe(World, c)} : Becomes(w, "unsubscribe", c)
          /\ conns' = [conns EXCEPT ![c] = "unsubscribed"]
    /\ EngineKept

\* fakeSocket.start()
Start ==
    /\ \E w \in {start(World)} : Becomes(w, "start", Null)
    /\ EngineKept
    /\ UNCHANGED conns

\* fakeSocket.stop()
Stop ==
    /\ \E w \in {stop(World)} : Becomes(w, "stop", Null)
    /\ EngineKept
    /\ UNCHANGED conns

\* a pending timeout fires
Fire ==
    /\ \E h \in timers, updateType \in UpdateTypes,
          react \in [socket.subscribers -> Reactions] :
          /\ updateType = "trade" => socket.sequenceId < MaxFeedTrades
          /\ \E w \in {timeoutAny(World, h, updateType, react)} :
                /\ Cardinality(w.timers) <= MaxTimers
                /\ Becomes(w, "timeout", [updateType |-> updateType, react |-> react])
                /\ conns' = ConnsOf(w)
    /\ EngineKept

NextSocket == Subscribe \/ Unsubscribe \/ Start \/ Stop \/ Fire

SpecSocket == Init /\ [][NextSocket]_vars

\* the browser runs a timeout that is due: a pending timeout fires in the
\* end, unless it is cleared
SpecSocketFair == SpecSocket /\ WF_vars(Fire)

\* ============================================================ trade list
\* The store's list of trades when it is full: SpecTrades starts after
\* initializeSocket and a number of 'trade' messages of the feed, up to the
\* hundred the store keeps, and goes on with trades of the feed, orders
\* submitted and clearTrades.

\* the application before anything was called
NewWorld ==
    [store |-> StoreInit, socket |-> SocketInit, timers |-> {},
     engine |-> NoCall, called |-> << >>]

\* the world after n timeouts that fired with a 'trade' update: the first
\* half of them, then the others
RECURSIVE Fed(_, _)
Fed(w, n) ==
    IF n = 0 THEN w
    ELSE IF n = 1
         THEN timeout([w EXCEPT !.called = << >>], w.socket.intervalId[1], "trade", 1)
    ELSE CHOOSE fed \in {Fed(v, n - (n \div 2)) : v \in {Fed(w, n \div 2)}} : TRUE

\* how many trades the feed has sent when the run starts
TradeFills == {0, TradesKept - 1, TradesKept}

\* the orders submitted in one run
MaxTradeSubmits == 3

InitTrades ==
    /\ orders = << >>
    /\ trades = << >>
    /\ sequenceId = 0
    /\ op = "idle"
    /\ arg = Null
    /\ pre = NoCall
    /\ ret = Null
    /\ steps = << >>
    /\ calls = 0
    /\ issued = 0 - 1
    /\ again = FALSE
    /\ held = Null
    /\ \E n \in TradeFills :
       \E w \in {Fed(connect(Called(NewWorld, "initializeSocket"), 1), n)} :
          /\ store = w.store
          /\ socket = w.socket
          /\ timers = w.timers
    /\ conns = [c \in Conns |-> IF c = 1 THEN "subscribed" ELSE "none"]
    /\ last = NoAction

\* submitOrder is called with an order that is accepted
TradesSubmitOrder ==
    /\ op = "idle"
    /\ calls < MaxTradeSubmits
    /\ \E orderData \in FeedOrderData :
       \E w \in {submitOrder(World, orderData, OrderIds[calls + 1])} :
          Becomes(w, "submitOrder", orderData)
    /\ calls' = calls + 1
    /\ issued' = MaxOf({issued} \cup {trades'[j].id : j \in 1..Len(trades')})
    /\ UNCHANGED <<op, arg, pre, ret, steps, again, held, conns>>

\* a pending timeout fires with a 'trade' update, MaxFeedTrades times past
\* a fill
TradesTimeout ==
    /\ \E n \in TradeFills :
          n <= socket.sequenceId /\ socket.sequenceId < n + MaxFeedTrades
    /\ \E h \in timers, draw \in FeedDraws :
       \E w \in {timeout(World, h, "trade", draw)} : Becomes(w, "timeout", "trade")
    /\ EngineKept
    /\ UNCHANGED conns

NextTrades == TradesSubmitOrder \/ TradesTimeout \/ ClearTrades

SpecTrades == InitTrades /\ [][NextTrades]_vars

\* ================================================================ claims
\* what the statements below mean by their words, written from the
\* statements and not from the operators of the model
IsAdd == op = "addOrder"

Opposes(order, o) == o.side # order.side

\* o is priced at or better than the limit of order
AtOrBetter(order, o) ==
    IF order.side = "buy" THEN o.price <= order.price ELSE o.price >= order.price

\* o may be matched by order
Eligible(order, o) ==
    /\ Opposes(order, o)
    /\ order.type = "limit" => AtOrBetter(order, o)

\* a is strictly better priced than b for the incoming order
StrictlyBetter(order, a, b) ==
    IF order.side = "buy" THEN a.price < b.price ELSE a.price > b.price

RECURSIVE SumSeq(_)
SumSeq(s) == IF s = << >> THEN 0 ELSE Head(s) + SumSeq(Tail(s))

Refs == 1..Len(pre.orders)
StepIdx == 1..Len(steps)

\* the trades the call returned, summed
Filled == SumSeq([j \in 1..Len(ret.trades) |-> ret.trades[j].quantity])

\* the eligible resting quantity at the start of the call
EligibleQuantity ==
    SumSeq([r \in 1..Len(pre.orders) |->
              IF Eligible(arg, pre.orders[r]) THEN pre.orders[r].quantity ELSE 0])

\* the steps of the loop are the trades returned, in order
StepsAreTrades ==
    /\ Len(steps) = Len(ret.trades)
    /\ \A j \in StepIdx : steps[j].trade = ret.trades[j]

\* r had been completely filled before step j
FilledBefore(r, j) ==
    \E i \in 1..(j - 1) : steps[i].ref = r /\ steps[i].oppAfter = 0

\* C1: price priority -- within one addOrder call, of two eligible opposing
\* resting orders the strictly better priced one is completely filled
\* before any trade against the worse priced one is generated, whatever
\* the order of their insertion
C1_PricePriority ==
    IsAdd =>
        /\ StepsAreTrades
        /\ \A r1, r2 \in Refs :
              ( /\ Eligible(arg, pre.orders[r1])
                /\ Eligible(arg, pre.orders[r2])
                /\ StrictlyBetter(arg, pre.orders[r1], pre.orders[r2]) )
              => \A j \in StepIdx : steps[j].ref = r2 => FilledBefore(r1, j)

\* the worse priced order was inserted first, and both were traded against
C1_Witness ==
    /\ IsAdd
    /\ \E r1, r2 \in Refs :
          /\ r2 < r1
          /\ Eligible(arg, pre.orders[r1])
          /\ Eligible(arg, pre.orders[r2])
          /\ StrictlyBetter(arg, pre.orders[r1], pre.orders[r2])
          /\ \E i, j \in StepIdx : i < j /\ steps[i].ref = r1 /\ steps[j].ref = r2

\* C2: time priority -- within one addOrder call, of two eligible opposing
\* resting orders at the same price the one inserted earlier is completely
\* filled before any trade against the later one is generated
C2_TimePriority ==
    IsAdd =>
        \A r1, r2 \in Refs :
            ( /\ r1 < r2
              /\ Eligible(arg, pre.orders[r1])
              /\ Eligible(arg, pre.orders[r2])
              /\ pre.orders[r1].price = pre.orders[r2].price )
            => \A j \in StepIdx : steps[j].ref = r2 => FilledBefore(r1, j)

\* two orders at one price were both traded against
C2_Witness ==
    /\ IsAdd
    /\ \E r1, r2 \in Refs :
          /\ r1 < r2
          /\ pre.orders[r1].price = pre.orders[r2].price
          /\ pre.orders[r1].side = pre.orders[r2].side
          /\ \E i, j \in StepIdx : steps[i].ref = r1 /\ steps[j].ref = r2

\* C3: maker price -- every trade addOrder returns has the price of the
\* resting order it was matched against
C3_MakerPrice ==
    IsAdd =>
        /\ StepsAreTrades
        /\ \A j \in 1..Len(ret.trades) :
              ret.trades[j].price = pre.orders[steps[j].ref].price

\* a limit order traded at a price that is not its limit
C3_Witness ==
    /\ IsAdd
    /\ Len(ret.trades) > 0
    /\ arg.type = "limit"
    /\ ret.trades[1].price # arg.price

\* C4: limit eligibility -- every trade of a limit buy has price <= its
\* limit, every trade of a limit sell has price >= its limit, and without
\* an opposing resting order at or better than the limit there is no trade
C4_LimitEligibility ==
    (IsAdd /\ arg.type = "limit") =>
        /\ \A j \in 1..Len(ret.trades) :
              IF arg.side = "buy" THEN ret.trades[j].price <= arg.price
              ELSE ret.trades[j].price >= arg.price
        /\ (~ \E r \in Refs : Opposes(arg, pre.orders[r]) /\ AtOrBetter(arg, pre.orders[r]))
              => ret.trades = << >>

\* a limit order left quantity unmatched although an opposing order, priced
\* worse than its limit, was resting; it did trade against an eligible one
C4_Witness ==
    /\ IsAdd
    /\ arg.type = "limit"
    /\ Len(ret.trades) > 0
    /\ ret.remainingOrder # Null
    /\ \E r \in Refs : Opposes(arg, pre.orders[r]) /\ ~ AtOrBetter(arg, pre.orders[r])

\* C5: quantity conservation -- every match takes exactly the trade's
\* quantity off the incoming order's remaining quantity and off the resting
\* order's quantity, and the trades against one resting order never sum to
\* more than the quantity with which it entered the resting set
C5_QuantityConservation ==
    /\ \A i \in 1..Len(orders) :
          /\ orders[i].filled <= orders[i].orig
          /\ orders[i].quantity = orders[i].orig - orders[i].filled
    /\ IsAdd =>
          /\ StepsAreTrades
          /\ \A j \in StepIdx :
                /\ steps[j].remAfter = steps[j].remBefore - ret.trades[j].quantity
                /\ steps[j].oppAfter = steps[j].oppBefore - ret.trades[j].quantity
                /\ steps[j].remBefore =
                      IF j = 1 THEN arg.quantity ELSE steps[j - 1].remAfter
                /\ steps[j].oppBefore = pre.orders[steps[j].ref].quantity
                /\ \A i \in 1..(j - 1) : steps[i].ref # steps[j].ref
                /\ steps[j].orig = pre.orders[steps[j].ref].orig
                /\ steps[j].filledAfter =
                      pre.orders[steps[j].ref].filled + ret.trades[j].quantity
                /\ steps[j].filledAfter <= steps[j].orig

\* a resting order was traded against in an earlier call and again in this
\* one, and is still resting with quantity left
C5_Witness ==
    /\ IsAdd
    /\ \E j \in StepIdx :
          /\ pre.orders[steps[j].ref].filled > 0
          /\ steps[j].filledAfter > pre.orders[steps[j].ref].filled
          /\ steps[j].filledAfter = steps[j].orig

C6_WitnessNonPositive ==
    /\ IsAdd
    /\ arg.type = "limit"
    /\ arg.quantity <= 0
    /\ pre.orders # << >>

\* a resting order of the state before the call, as it is after it
SameOrder(before, after) ==
    /\ after.id = before.id
    /\ after.price = before.price
    /\ after.side = before.side
    /\ after.type = before.type
    /\ after.quantity <= before.quantity

\* the resting set holds only orders that rested before the call, in the
\* order they had
OnlySurvivors(now) ==
    \E f \in [1..Len(now) -> Refs] :
        /\ \A i, k \in 1..Len(now) : i < k => f[i] < f[k]
        /\ \A i \in 1..Len(now) : SameOrder(pre.orders[f[i]], now[i])

\* C7: a market order never rests -- addOrder of a market order returns a
\* null remainder and adds nothing to the resting set, filled or not; no
\* resting order is ever of type market
C7_MarketNeverRests ==
    /\ \A i \in 1..Len(orders) : orders[i].type # "market"
    /\ (IsAdd /\ arg.type = "market") =>
          /\ ret.remainingOrder = Null
          /\ OnlySurvivors(orders)

\* a market order was filled in part only, and the rest of it was dropped
C7_Witness ==
    /\ IsAdd
    /\ arg.type = "market"
    /\ arg.quantity > 0
    /\ Len(ret.trades) > 0
    /\ Filled < arg.quantity
    /\ orders # << >>

\* the remainder and the resting set after a limit order of quantity q
\* whose trades sum to f
RemainderRule ==
    LET q == arg.quantity
        f == Filled
        n == Len(orders)
    IN /\ (q - f > 0) =>
            /\ ret.remainingOrder = Some([arg EXCEPT !.quantity = q - f])
            /\ n > 0
            /\ Core(orders[n]) = [arg EXCEPT !.quantity = q - f]
            /\ OnlySurvivors(SubSeq(orders, 1, n - 1))
       /\ (q - f = 0) =>
            /\ ret.remainingOrder = Null
            /\ OnlySurvivors(orders)

NoneEligible == ~ \E r \in Refs : Eligible(arg, pre.orders[r])

\* the whole order rests, as it was submitted
RestsWhole ==
    /\ ret.remainingOrder = Some(arg)
    /\ orders # << >>
    /\ Core(orders[Len(orders)]) = arg

\* C8, as stated: limit remainder -- for a limit order of quantity q whose
\* trades sum to f: if q - f > 0 the returned remainder is the order with
\* quantity q - f and exactly it is appended at the end of the resting set;
\* if q - f = 0 the remainder is null and nothing is added; without
\* eligible opposing orders no trade is generated and the whole order rests
C8_AsStated ==
    (IsAdd /\ arg.type = "limit") =>
        /\ RemainderRule
        /\ NoneEligible => (ret.trades = << >> /\ RestsWhole)

\* C8, amended: as above, but without eligible opposing orders the whole
\* order rests only when q > 0; an order of quantity q <= 0 is not added
\* to the resting set and its remainder is null
C8_LimitRemainder ==
    (IsAdd /\ arg.type = "limit") =>
        /\ RemainderRule
        /\ NoneEligible =>
              /\ ret.trades = << >>
              /\ IF arg.quantity > 0 THEN RestsWhole
                 ELSE ret.remainingOrder = Null /\ orders = pre.orders

\* a limit order was filled in part and its remainder went behind an order
\* that was already resting
C8_Witness ==
    /\ IsAdd
    /\ arg.type = "limit"
    /\ Filled > 0
    /\ arg.quantity - Filled > 0
    /\ Len(orders) >= 2

\* a limit order was filled completely and nothing was added
C8_WitnessFull ==
    /\ IsAdd
    /\ arg.type = "limit"
    /\ arg.quantity > 0
    /\ Filled = arg.quantity

\* C9: maximal fill -- for an order of quantity q > 0 the trades sum to
\* min(q, eligible resting quantity), and every trade quantity is
\* min(incoming remaining, resting quantity) and > 0
C9_MaximalFill ==
    (IsAdd /\ arg.quantity > 0) =>
        /\ StepsAreTrades
        /\ Filled = IF arg.quantity <= EligibleQuantity THEN arg.quantity
                    ELSE EligibleQuantity
        /\ \A j \in 1..Len(ret.trades) :
              /\ ret.trades[j].quantity > 0
              /\ ret.trades[j].quantity =
                    IF steps[j].remBefore <= steps[j].oppBefore
                    THEN steps[j].remBefore ELSE steps[j].oppBefore

\* a limit order exhausted the eligible orders and had quantity left,
\* while an opposing order priced worse than its limit was resting
C9_Witness ==
    /\ IsAdd
    /\ arg.type = "limit"
    /\ Len(ret.trades) > 0
    /\ Filled = EligibleQuantity
    /\ Filled < arg.quantity
    /\ \E r \in Refs : Opposes(arg, pre.orders[r]) /\ ~ Eligible(arg, pre.orders[r])

\* an order was satisfied before the eligible orders were exhausted
C9_WitnessSatisfied ==
    /\ IsAdd
    /\ Len(ret.trades) = 2
    /\ Filled = arg.quantity
    /\ Filled < EligibleQuantity

\* s is t back to front
IsReverseOf(s, t) ==
    /\ Len(s) = Len(t)
    /\ \A i \in 1..Len(s) : s[i] = t[Len(t) + 1 - i]

\* C10: trade log -- addOrder appends exactly the trades it returns, in
\* the order of their generation, to the end of the log; no other call but
\* clear, which empties it, changes the log; getTrades returns the log most
\* recent first
C10_TradeLog ==
    /\ IsAdd => (StepsAreTrades /\ trades = pre.trades \o ret.trades)
    /\ op = "clear" => trades = << >>
    /\ op \in {"removeOrder", "getTrades", "getOrders"} => trades = pre.trades
    /\ op = "getTrades" => IsReverseOf(ret, trades)

\* getTrades returned the trades of two different calls
C10_Witness ==
    /\ op = "getTrades"
    /\ Len(ret) = 2
    /\ ret[1].side # ret[2].side
    /\ ret[1].id > ret[2].id

\* ------------------------------------------------------------------ C11
\* C11: trade identifiers -- over the whole life of the engine every trade
\* addOrder generates has a number greater than that of every trade
\* generated before it: before it in the same call, in an earlier call, and
\* in a call made before a clear()
C11_MonotonicIds ==
    [][op' = "addOrder" =>
          \A j \in 1..Len(ret'.trades) :
              /\ ret'.trades[j].id > issued
              /\ \A i \in 1..(j - 1) : ret'.trades[i].id < ret'.trades[j].id]_vars

\* a trade generated after trades were generated and the log was cleared
C11_Witness ==
    /\ IsAdd
    /\ ret.trades # << >>
    /\ pre.trades = << >>
    /\ ret.trades[1].id > 0

\* one call that generated two trades, after an earlier call generated one
C11_WitnessWithin ==
    /\ IsAdd
    /\ Len(ret.trades) > 1
    /\ pre.trades # << >>

\* ------------------------------------------------------------------ C12
\* C12: sides of a trade -- every trade addOrder returns has the side of
\* the incoming order; for an incoming buy its buyer is the incoming
\* order's identifier and its seller the resting order's, for an incoming
\* sell its seller is the incoming order's identifier and its buyer the
\* resting order's
C12_TradeParties ==
    IsAdd =>
        /\ StepsAreTrades
        /\ \A j \in 1..Len(ret.trades) :
              LET trade == ret.trades[j]
                  resting == pre.orders[steps[j].ref]
              IN /\ trade.side = arg.side
                 /\ resting.side # arg.side
                 /\ arg.side = "buy" => (trade.buyer = arg.id /\ trade.seller = resting.id)
                 /\ arg.side = "sell" => (trade.seller = arg.id /\ trade.buyer = resting.id)

\* an incoming sell traded against a resting buy of another identifier
C12_Witness ==
    /\ IsAdd
    /\ arg.side = "sell"
    /\ ret.trades # << >>
    /\ ret.trades[1].buyer # ret.trades[1].seller

\* an incoming buy traded against a resting sell of another identifier
C12_WitnessBuy ==
    /\ IsAdd
    /\ arg.side = "buy"
    /\ ret.trades # << >>
    /\ ret.trades[1].buyer # ret.trades[1].seller

\* ------------------------------------------------------------------ C13
\* the resting orders of one side, and of one side at one price
OnSide(side) == {r \in 1..Len(orders) : orders[r].side = side}
AtPrice(side, price) == {r \in OnSide(side) : orders[r].price = price}

\* the sum of the quantities of the resting orders at the positions S
RECURSIVE SumQuantities(_)
SumQuantities(S) ==
    IF S = {} THEN 0
    ELSE LET r == CHOOSE x \in S : TRUE IN orders[r].quantity + SumQuantities(S \ {r})

QuantityAt(side, price) == SumQuantities(AtPrice(side, price))

\* the distinct resting prices of side
PricesOf(side) == {orders[r].price : r \in OnSide(side)}

Better(side, p, q) == IF side = "buy" THEN p > q ELSE p < q

\* every level of levels is the aggregation of the resting orders of side
\* at its price, and no two levels have one price
LevelsAggregate(levels, side) ==
    /\ \A i, j \in 1..Len(levels) : levels[i].price = levels[j].price => i = j
    /\ \A i \in 1..Len(levels) :
          /\ levels[i].price \in PricesOf(side)
          /\ levels[i].quantity = QuantityAt(side, levels[i].price)
          /\ levels[i].count = Cardinality(AtPrice(side, levels[i].price))

LevelPrices(levels) == {levels[i].price : i \in 1..Len(levels)}

StrictlySorted(levels, side) ==
    \A i \in 1..(Len(levels) - 1) : Better(side, levels[i].price, levels[i + 1].price)

\* C13, as stated: getOrderBook returns per side one level for every
\* distinct resting price of that side, its quantity the sum of the
\* quantities of the resting orders of the side at that price and its count
\* their number; the bid levels are strictly descending by price and the
\* ask levels strictly ascending
C13_AsStated ==
    op = "getOrderBook" =>
        \A side \in Sides :
            LET levels == IF side = "buy" THEN ret.bids ELSE ret.asks
            IN /\ LevelsAggregate(levels, side)
               /\ LevelPrices(levels) = PricesOf(side)
               /\ StrictlySorted(levels, side)

\* C13, amended: the levels getOrderBook returns for a side are one level
\* for each of the 20 best distinct resting prices of that side (for every
\* distinct resting price when there are no more than 20), each with the
\* sum of the quantities and the number of the resting orders of the side
\* at that price, bids strictly descending and asks strictly ascending
C13_BookAggregation ==
    op = "getOrderBook" =>
        \A side \in Sides :
            LET levels == IF side = "buy" THEN ret.bids ELSE ret.asks
                left == PricesOf(side) \ LevelPrices(levels)
            IN /\ LevelsAggregate(levels, side)
               /\ StrictlySorted(levels, side)
               /\ left # {} => Len(levels) = 20
               /\ \A p \in left : \A i \in 1..Len(levels) : Better(side, levels[i].price, p)

\* a book of more than 20 bid prices, two of the bids at the best price
C13_Witness ==
    /\ op = "getOrderBook"
    /\ Cardinality(PricesOf("buy")) > 20
    /\ ret.bids # << >>
    /\ ret.bids[1].count > 1
    /\ ret.asks # << >>

\* ------------------------------------------------------------------ C14
\* the resting orders of side priced at price or better
AtOrBetterThan(side, price) ==
    {r \in OnSide(side) : orders[r].price = price \/ Better(side, orders[r].price, price)}

\* C14: cumulative totals -- in every book getOrderBook returns, the total
\* of a level is its own quantity plus the quantities of all better-priced
\* levels of its side, and the totals do not decrease along a side as the
\* price gets worse
C14_CumulativeTotals ==
    op = "getOrderBook" =>
        \A side \in Sides :
            LET levels == IF side = "buy" THEN ret.bids ELSE ret.asks
            IN /\ \A i \in 1..Len(levels) :
                     /\ levels[i].total
                          = levels[i].quantity
                            + SumSeq([j \in 1..(i - 1) |-> levels[j].quantity])
                     /\ levels[i].total
                          = SumQuantities(AtOrBetterThan(side, levels[i].price))
               /\ \A i \in 1..(Len(levels) - 1) : levels[i].total <= levels[i + 1].total

\* a side of three levels whose quantities differ
C14_Witness ==
    /\ op = "getOrderBook"
    /\ Len(ret.asks) > 2
    /\ ret.asks[1].quantity # ret.asks[2].quantity
    /\ ret.asks[3].total > ret.asks[3].quantity

\* ------------------------------------------------------------------ C15
\* the depth a call of getOrderBook asked for: 20 when it named none
AskedDepth == IF arg = Null THEN 20 ELSE arg[1]

\* levels are the n best price levels of side, or all when there are fewer
BestLevels(levels, side, n) ==
    /\ Len(levels) = Min(n, Cardinality(PricesOf(side)))
    /\ LevelPrices(levels) \subseteq PricesOf(side)
    /\ Cardinality(LevelPrices(levels)) = Len(levels)
    /\ \A p \in PricesOf(side) \ LevelPrices(levels) :
          \A i \in 1..Len(levels) : Better(side, levels[i].price, p)

MinOf(S) == CHOOSE x \in S : \A y \in S : x <= y

\* the best resting prices, read from the resting set
BestBid == MaxOf(PricesOf("buy"))
BestAsk == MinOf(PricesOf("sell"))

\* the book has the mid-price and the spread of its best prices; midPrice
\* counts halves, so the average of two prices is their sum
MidAndSpread == ret.midPrice = BestBid + BestAsk /\ ret.spread = BestAsk - BestBid

\* C16: mid-price and spread -- in a book getOrderBook returns, when a bid
\* level and an ask level both exist the mid-price is the average of the
\* best bid and the best ask price and the spread is the best ask minus the
\* best bid; when a side is empty both are 0
C16_MidPriceSpread ==
    op = "getOrderBook" =>
        IF OnSide("buy") # {} /\ OnSide("sell") # {}
        THEN MidAndSpread
        ELSE ret.midPrice = 0 /\ ret.spread = 0

\* what the code does keep: the statement for books whose best bid is not
\* at the price 0
C16_NonZeroBid ==
    op = "getOrderBook" =>
        IF OnSide("buy") # {} /\ OnSide("sell") # {}
        THEN BestBid # 0 => MidAndSpread
        ELSE ret.midPrice = 0 /\ ret.spread = 0

\* a book of both sides whose mid-price is no whole number
C16_NonZeroBidWitness ==
    /\ op = "getOrderBook"
    /\ OnSide("buy") # {}
    /\ OnSide("sell") # {}
    /\ BestBid # 0
    /\ ret.midPrice = 3
    /\ ret.spread = 1

\* ------------------------------------------------------------------ C17
\* the positions of pre.orders whose order does not have the identifier id
Others(id) == {r \in Refs : pre.orders[r].id # id}

\* C17: removeOrder -- removeOrder(id) returns true exactly when an order
\* of that identifier was resting before the call; afterwards no resting
\* order has the identifier, all other resting orders are what they were
\* and in the order they were in, and the trade log is what it was; when
\* the call returns false the whole state of the engine is what it was
C17_RemoveOrder ==
    op = "removeOrder" =>
        /\ ret = (\E r \in Refs : pre.orders[r].id = arg)
        /\ \A i \in 1..Len(orders) : orders[i].id # arg
        /\ Len(orders) = Cardinality(Others(arg))
        /\ \A r \in Others(arg) :
              orders[Cardinality({x \in Others(arg) : x <= r})] = pre.orders[r]
        /\ trades = pre.trades
        /\ sequenceId = pre.sequenceId
        /\ ret = FALSE =>
              (orders = pre.orders /\ trades = pre.trades /\ sequenceId = pre.sequenceId)

\* an order resting behind an order of another identifier was removed
C17_Witness ==
    /\ op = "removeOrder"
    /\ ret = TRUE
    /\ Len(pre.orders) > 1
    /\ pre.orders[1].id # arg
    /\ orders # << >>

\* two resting orders share the identifier that was removed
C17_WitnessNamesakes ==
    /\ op = "removeOrder"
    /\ Cardinality(Refs \ Others(arg)) > 1

\* the identifier was not resting, other orders were
C17_WitnessAbsent ==
    /\ op = "removeOrder"
    /\ ret = FALSE
    /\ pre.orders # << >>

\* ------------------------------------------------------------------ C18
\* the two reads the statement names
PureReads == {"getTrades", "getOrderBook"}

\* C18: pure reads -- a call of getOrderBook or getTrades, whenever it is
\* made, leaves the resting set, the trade log and the counter of trade
\* numbers as they were, and a call that follows a call of the same
\* method with no other call between them returns an equal result
C18_PureReads ==
    [][op' \in PureReads =>
          /\ orders' = orders
          /\ trades' = trades
          /\ sequenceId' = sequenceId
          /\ op = op' => ret' = ret]_vars

\* getTrades called a second time in a row on a log of two trades
C18_Witness ==
    /\ op = "getTrades"
    /\ again
    /\ Len(ret) > 1
    /\ orders # << >>

\* getOrderBook called a second time in a row on a book of both sides
C18_WitnessBook ==
    /\ op = "getOrderBook"
    /\ again
    /\ ret.bids # << >>
    /\ ret.asks # << >>

\* ------------------------------------------------------------------ C19
\* the engine had neither resting orders nor trades when the call started
WasEmpty == pre.orders = << >> /\ pre.trades = << >>

\* C19: clear -- clear() leaves the resting set and the trade log empty,
\* whatever the state it is called in; getOrderBook called on the engine
\* in that state returns no bids, no asks, mid-price 0 and spread 0, and
\* getTrades returns the empty sequence; clear() called in that state
\* changes nothing
C19_Clear ==
    /\ op = "clear" => (orders = << >> /\ trades = << >>)
    /\ (op = "clear" /\ WasEmpty) =>
          (orders = pre.orders /\ trades = pre.trades /\ sequenceId = pre.sequenceId)
    /\ (op = "getOrderBook" /\ WasEmpty) =>
          ret = [bids |-> << >>, asks |-> << >>, midPrice |-> 0, spread |-> 0]
    /\ (op = "getTrades" /\ WasEmpty) => ret = << >>

\* clear() called with orders resting and trades in the log
C19_Witness ==
    /\ op = "clear"
    /\ pre.orders # << >>
    /\ pre.trades # << >>

\* clear() called on an engine that earlier calls had left empty
C19_WitnessAgain ==
    /\ op = "clear"
    /\ WasEmpty
    /\ calls > 1

\* getOrderBook on an engine left empty after a trade
C19_WitnessBook ==
    /\ op = "getOrderBook"
    /\ WasEmpty
    /\ sequenceId > 0

\* ------------------------------------------------------------------ C20
\* A second engine instance that holds the resting set the call started
\* with, and differs from the first in everything else an instance has:
\* its resting orders carry timestamps, the later order the earlier one;
\* one more trade was generated (and logged) before the others, so its
\* counter of trade numbers is one ahead.
OtherOrders ==
    [i \in 1..Len(pre.orders) |->
        [id |-> pre.orders[i].id, price |-> pre.orders[i].price,
         quantity |-> pre.orders[i].quantity, side |-> pre.orders[i].side,
         type |-> pre.orders[i].type, orig |-> pre.orders[i].orig,
         filled |-> pre.orders[i].filled, timestamp |-> Len(pre.orders) - i]]

OtherTrades ==
    <<[id |-> IF pre.trades = << >> THEN pre.sequenceId ELSE pre.trades[1].id,
       price |-> 1, quantity |-> 1, side |-> "buy", buyer |-> "c", seller |-> "c"]>>
    \o [i \in 1..Len(pre.trades) |-> [pre.trades[i] EXCEPT !.id = @ + 1]]

OtherInstance ==
    [orders |-> OtherOrders, trades |-> OtherTrades, sequenceId |-> pre.sequenceId + 1]

\* what the statement compares of a trade, and of a resting order
TradeFacts(t) ==
    [price |-> t.price, quantity |-> t.quantity, side |-> t.side,
     buyer |-> t.buyer, seller |-> t.seller]

OrderFacts(o) ==
    [id |-> o.id, price |-> o.price, quantity |-> o.quantity, side |-> o.side,
     type |-> o.type]

\* C20: determinism -- an engine instance that holds the same resting
\* orders in the same insertion order and receives the same incoming order
\* generates the same trades (prices, quantities, sides, buyers, sellers,
\* in the same order), returns the same remainder and is left with the
\* same resting set, whatever the timestamps of its resting orders, its
\* trade log and its counter of trade numbers are
C20_Determinism ==
    IsAdd =>
        LET other == addOrder(OtherInstance, arg)
        IN /\ Len(other.ret.trades) = Len(ret.trades)
           /\ \A j \in 1..Len(ret.trades) :
                 TradeFacts(other.ret.trades[j]) = TradeFacts(ret.trades[j])
           /\ other.ret.remainingOrder = ret.remainingOrder
           /\ Len(other.orders) = Len(orders)
           /\ \A i \in 1..Len(orders) : OrderFacts(other.orders[i]) = OrderFacts(orders[i])

\* an incoming order traded against two resting orders of one price and
\* of different identifiers, and an order is left resting
C20_Witness ==
    /\ IsAdd
    /\ Len(ret.trades) > 1
    /\ ret.trades[1].price = ret.trades[2].price
    /\ TradeFacts(ret.trades[1]) # TradeFacts(ret.trades[2])
    /\ orders # << >>

\* C23: the engine never fails -- addOrder returns for every order, and for
\* an order of quantity <= 0, of either type and side and against any
\* resting set, it matches nothing: no trade is returned, the trade log,
\* the trade counter and every resting order are as they were
C23_NeverFails ==
    IsAdd =>
        /\ DOMAIN ret = {"trades", "remainingOrder"}
        /\ arg.quantity <= 0 =>
              /\ ret.trades = << >>
              /\ steps = << >>
              /\ trades = pre.trades
              /\ sequenceId = pre.sequenceId
              /\ Len(orders) >= Len(pre.orders)
              /\ \A r \in Refs : orders[r] = pre.orders[r]

\* a limit order of quantity <= 0 met a resting order it could have matched
C23_Witness ==
    /\ IsAdd
    /\ arg.type = "limit"
    /\ arg.quantity <= 0
    /\ \E r \in Refs : Eligible(arg, pre.orders[r])
    /\ pre.trades # << >>

\* a market order of negative quantity met an opposing resting order
C23_WitnessMarket ==
    /\ IsAdd
    /\ arg.type = "market"
    /\ arg.quantity < 0
    /\ \E r \in Refs : Eligible(arg, pre.orders[r])

\* ------------------------------------------------------------------ C27
BothSides == OnSide("buy") # {} /\ OnSide("sell") # {}

\* C27: no crossed book -- whenever the resting set holds both a buy and a
\* sell order, the highest resting buy price is strictly below the lowest
\* resting sell price; and a snapshot of a book with both sides present,
\* all of positive price, has the spread best ask - best bid > 0
C27_NoCrossedBook ==
    /\ BothSides => BestBid < BestAsk
    /\ (op = "getOrderBook" /\ BothSides /\ BestBid > 0) =>
          /\ ret.spread = BestAsk - BestBid
          /\ ret.spread > 0

\* a limit order of positive quantity and price took all it could at its
\* limit and its remainder rests facing an order beyond its limit
C27_Witness ==
    /\ IsAdd
    /\ arg.type = "limit"
    /\ arg.price > 0
    /\ Filled > 0
    /\ arg.quantity - Filled > 0
    /\ BothSides
    /\ \A r \in 1..Len(orders) : orders[r].price > 0 /\ orders[r].quantity > 0

\* a snapshot of a book with both sides present, at positive prices
C27_WitnessSpread ==
    /\ op = "getOrderBook"
    /\ BothSides
    /\ BestBid > 0
    /\ ret.spread > 0

\* ------------------------------------------------------------------ C28
\* the resting orders of the state before an addOrder call that the call
\* took out: those filled completely, and their namesakes
Gone ==
    {r \in Refs : \E j \in StepIdx :
        /\ steps[j].oppAfter <= 0
        /\ pre.orders[steps[j].ref].id = pre.orders[r].id}

\* those that remain, and the place each of them has among those that remain
Stay == Refs \ Gone
PlaceOf(S, r) == Cardinality({x \in S : x <= r})

\* the order at place r before the call is the order at place k after it
Remains(S, r) ==
    /\ PlaceOf(S, r) <= Len(orders)
    /\ SameOrder(pre.orders[r], orders[PlaceOf(S, r)])
    /\ orders[PlaceOf(S, r)].orig = pre.orders[r].orig

\* C28: arrival order is structural and stable -- no operation changes the
\* relative order of two orders that both remain in the resting set: the
\* orders that remain after a call stand in the order they had before it,
\* partially filled ones included, and a new limit remainder stands behind
\* all of them
C28_ArrivalOrder ==
    /\ IsAdd =>
          /\ \A r \in Stay : Remains(Stay, r)
          /\ Len(orders) \in {Cardinality(Stay), Cardinality(Stay) + 1}
          /\ Len(orders) = Cardinality(Stay) + 1 =>
                /\ ret.remainingOrder # Null
                /\ Core(orders[Len(orders)]) = ret.remainingOrder[1]
          /\ (ret.remainingOrder # Null /\ ret.remainingOrder[1].quantity > 0) =>
                Len(orders) = Cardinality(Stay) + 1
    /\ op = "removeOrder" =>
          /\ \A r \in Others(arg) : Remains(Others(arg), r)
          /\ Len(orders) = Cardinality(Others(arg))
    /\ op \in {"getTrades", "getOrders", "getOrderBook"} => orders = pre.orders

\* a resting order was filled in part and stays ahead of an order that was
\* inserted after it
C28_Witness ==
    /\ IsAdd
    /\ \E j \in StepIdx : \E r \in Stay :
          /\ steps[j].oppAfter > 0
          /\ steps[j].ref \in Stay
          /\ steps[j].ref < r
          /\ orders[PlaceOf(Stay, steps[j].ref)].quantity = steps[j].oppAfter
          /\ PlaceOf(Stay, steps[j].ref) < PlaceOf(Stay, r)

\* the remainder of a limit order went behind two orders, after an order
\* ahead of them had been taken out
C28_WitnessBehind ==
    /\ IsAdd
    /\ Gone # {}
    /\ Stay # {}
    /\ \E g \in Gone : \E r \in Stay : g < r
    /\ Len(orders) = Cardinality(Stay) + 1
    /\ Core(orders[1]) # Core(orders[Len(orders)])

\* ------------------------------------------------------------------ C21
KeptFrom(ops) == held # Null /\ held.op \in ops

HeldRefs == 1..Len(held.refs)

\* C21: book snapshots and trade sequences returned to callers are copies
\* -- after getOrderBook or getTrades has returned, no later addOrder,
\* removeOrder or clear call changes the levels, mid-price or spread of
\* the returned snapshot, or the contents of the returned trade sequence
C21_ReturnedCopies ==
    KeptFrom({"getOrderBook", "getTrades"}) =>
        \A i \in HeldRefs : held.refs[i].now = held.refs[i].was

\* a kept trade sequence of one trade, after a later call has logged
\* another trade
C21_Witness ==
    /\ KeptFrom({"getTrades"})
    /\ Len(held.refs[1].was) = 1
    /\ IsAdd
    /\ ret.trades # << >>
    /\ Len(trades) = 2

\* a kept trade sequence, after clear() has emptied the log
C21_WitnessClear ==
    /\ KeptFrom({"getTrades"})
    /\ held.refs[1].was # << >>
    /\ op = "clear"
    /\ trades = << >>

\* a kept snapshot with a bid level, after a later call has taken that bid
C21_WitnessBook ==
    /\ KeptFrom({"getOrderBook"})
    /\ held.refs[1].was.bids # << >>
    /\ IsAdd
    /\ ret.trades # << >>
    /\ OnSide("buy") = {}

\* ------------------------------------------------------------------ C22
\* C22: order values handed to the caller do not expose later mutation --
\* the remainder returned by addOrder, and the orders of a list returned
\* by getOrders, keep the quantity they had when returned, even when a
\* later addOrder partially or completely fills the resting order
C22_ReturnedOrders ==
    KeptFrom({"addOrder", "getOrders"}) =>
        \A i \in HeldRefs : held.refs[i].now.quantity = held.refs[i].was.quantity

\* apart from the quantity, a returned order keeps its fields
C22_OtherFields ==
    KeptFrom({"addOrder", "getOrders"}) =>
        \A i \in HeldRefs :
            [held.refs[i].now EXCEPT !.quantity = 0] = [held.refs[i].was EXCEPT !.quantity = 0]

\* ------------------------------------------------------------------ C24
\* a text that is no number, and the number of one that is
Unparsable(text) == text \in {"", "abc"}

ValueOf(text) ==
    CASE text = "-1" -> 0 - 1
      [] text = "0" -> 0
      [] text = "1" -> 1
      [] text = "2x" -> 2

NotPositive(text) == Unparsable(text) \/ ValueOf(text) <= 0

\* an order request that must not reach the engine
Refused(orderData) ==
    \/ NotPositive(orderData.quantity)
    \/ orderData.type = "limit" /\ NotPositive(orderData.price)

IsSubmit(action) == action.act \in {"handleSubmit", "submitOrder"}

\* C24: upstream validation -- an order request with quantity <= 0 or
\* unparsable, or a limit request with price <= 0 or unparsable, never
\* reaches the engine: the form does not call submitOrder, submitOrder does
\* not call addOrder, and the resting set, the trade log and the store's
\* orderBook, trades, form contents and modal flag are left as they were
C24_UpstreamValidation ==
    [][(IsSubmit(last') /\ Refused(last'.input)) =>
          /\ ~ Reached(last'.called, "addOrder")
          /\ last'.act = "handleSubmit" => ~ Reached(last'.called, "submitOrder")
          /\ UNCHANGED <<orders, trades, sequenceId>>
          /\ store'.orderBook = store.orderBook
          /\ store'.trades = store.trades
          /\ store'.currentOrder = store.currentOrder
          /\ store'.isOrderModalOpen = store.isOrderModalOpen]_vars

\* the form was submitted with a quantity that is not positive, while an
\* order rests and the store shows the book of the engine
C24_Witness ==
    /\ last.act = "handleSubmit"
    /\ NotPositive(last.input.quantity)
    /\ last.called = <<"handleSubmit", "validateForm">>
    /\ orders # << >>
    /\ store.orderBook # initialOrderBook
    /\ store.currentOrder = last.input
    /\ store.isOrderModalOpen

\* the form was submitted as a limit order with a good quantity and no
\* positive price
C24_WitnessPrice ==
    /\ last.act = "handleSubmit"
    /\ last.input.type = "limit"
    /\ ~ NotPositive(last.input.quantity)
    /\ NotPositive(last.input.price)
    /\ store.currentOrder = last.input

\* submitOrder was called with a quantity that is no number, and with a
\* limit price that is no number, while an order rests
C24_WitnessStore ==
    /\ last.act = "submitOrder"
    /\ \/ last.input.quantity = "abc"
       \/ last.input.type = "limit" /\ last.input.price = "abc" /\ last.input.quantity = "2x"
    /\ last.called = <<"submitOrder">>
    /\ orders # << >>

\* requests that are not refused do reach the engine
C24_WitnessAccepted ==
    /\ last.act = "handleSubmit"
    /\ Reached(last.called, "addOrder")
    /\ trades # << >>

\* ------------------------------------------------------------------ C25
\* the actions of the simulated feed and of its subscription
FeedActs == {"initializeSocket", "cleanup", "togglePause", "timeout"}

\* C25: the simulated feed never touches engine state -- no feed action
\* (subscribe, unsubscribe, start, stop, a timer firing, the delivery of an
\* 'orderbook' or 'trade' message to the store) changes the resting set,
\* the trade log or the trade counter of the engine; only submitOrder does
C25_FeedLeavesEngine ==
    [][/\ last'.act \in FeedActs => UNCHANGED <<orders, trades, sequenceId>>
       /\ ~ UNCHANGED <<orders, trades, sequenceId>> =>
             /\ last'.act = "submitOrder"
             /\ Reached(last'.called, "addOrder")]_vars

\* a trade made up by the feed was delivered to the store while the engine
\* holds a resting order and a trade of its own
C25_Witness ==
    /\ last.act = "timeout"
    /\ last.input = "trade"
    /\ Reached(last.called, "addTrade")
    /\ socket.sequenceId > 0
    /\ orders # << >>
    /\ trades # << >>
    /\ sequenceId > 0

\* the last subscriber left and the feed was stopped, the engine holding
\* an order
C25_WitnessStop ==
    /\ last.act = "cleanup"
    /\ Reached(last.called, "stop")
    /\ orders # << >>

\* ------------------------------------------------------------------ C26
\* C26: the two book sources are not conflated -- under any interleaving
\* of submitOrder calls and feed messages, an order book that submitOrder
\* wrote into the store from the engine is never overwritten by an
\* 'orderbook' message of the simulated feed
C26_BookSources ==
    [][last.bookFrom = "engine" =>
          ~ (/\ last'.act = "timeout"
             /\ last'.input = "orderbook"
             /\ Reached(last'.called, "setOrderBook"))]_vars

\* the book submitOrder writes is the book of the engine
C26_EngineBook ==
    (last.act = "submitOrder" /\ Reached(last.called, "setOrderBook")) =>
        /\ store.orderBook = getOrderBook
        /\ last.bookFrom = "engine"

\* ------------------------------------------------------------------ C29
\* C29: while the store is paused, no message delivered by the simulated
\* feed changes the store's orderBook or trades; only submitOrder and
\* clearTrades change them in that period
C29_PausedStore ==
    [][store.isPaused =>
          /\ last'.act = "timeout" =>
                /\ store'.orderBook = store.orderBook
                /\ store'.trades = store.trades
          /\ (store'.orderBook # store.orderBook \/ store'.trades # store.trades) =>
                last'.act \in {"submitOrder", "clearTrades"}]_vars

\* a message of the feed reached the callback while the store was paused,
\* the store holding a book and a trade
C29_Witness ==
    /\ store.isPaused
    /\ last.act = "timeout"
    /\ last.called[Len(last.called)] = "callback"
    /\ store.orderBook # initialOrderBook
    /\ store.trades # << >>

\* submitOrder wrote the book and a trade while the store was paused
C29_WitnessSubmit ==
    /\ store.isPaused
    /\ last.act = "submitOrder"
    /\ Reached(last.called, "addTrade")
    /\ Reached(last.called, "setOrderBook")

\* ------------------------------------------------------------------ C30
\* C30: whenever the store is paused the simulated feed is stopped -- not
\* running, no update timer pending -- under any interleaving of
\* togglePause, initializeSocket, its cleanup function and timer firings
C30_PausedFeedStopped ==
    store.isPaused => (~ socket.isRunning /\ timers = {})

\* pausing itself does stop the feed
C30_PauseStops ==
    (last.act = "togglePause" /\ store.isPaused) =>
        (~ socket.isRunning /\ timers = {} /\ socket.intervalId = Null)

\* at most one timeout is pending, and only while the feed runs
C30_OneTimer ==
    /\ Cardinality(timers) <= 1
    /\ timers # {} => (socket.isRunning /\ socket.intervalId = Some(CHOOSE h \in timers : TRUE))

\* ------------------------------------------------------------------ C31
\* C31: the simulated feed has at most one pending update timer at any
\* time, and none while it is not running -- under any interleaving of
\* subscribe, unsubscribe, start, stop and timer firings, calls made by a
\* subscriber from inside a broadcast callback included
C31_OneTimer ==
    /\ Cardinality(timers) <= 1
    /\ ~ socket.isRunning => timers = {}

\* a callback stopped the feed and a callback started it again, while one
\* message was being broadcast
RestartedInside ==
    /\ last'.act = "timeout"
    /\ \E i, j \in 1..Len(last'.called) :
          i < j /\ last'.called[i] = "stop" /\ last'.called[j] = "start"

\* every other step keeps the timer single: all calls from outside a
\* callback, and a broadcast in which the feed is not stopped and started
\* again
C31_OutsideCallbacks ==
    [][(C31_OneTimer /\ ~ RestartedInside) => C31_OneTimer']_vars

\* a timeout fired where a callback stopped the feed, and the timer is
\* single still
C31_WitnessStopInside ==
    /\ last.act = "timeout"
    /\ Reached(last.called, "stop")
    /\ C31_OneTimer
    /\ socket.subscribers # {}

\* ------------------------------------------------------------------ C32
\* how often the function name is among those called
Times(called, name) == Cardinality({i \in 1..Len(called) : called[i] = name})

\* C32: feed liveness -- while the feed is running and stop is not called,
\* every timer firing broadcasts exactly one message to all current
\* subscribers and then arms a new timer, so a subscriber that stays
\* subscribed receives messages infinitely often; once stop has been called
\* (directly or by the last unsubscribe) no further message is broadcast
\* until start or subscribe is called again
C32_SilentOnceStopped ==
    [][~ socket.isRunning =>
          ~ (/\ last'.act = "timeout"
             /\ \E c \in Conns : Reached(last'.called, SubscriberName(c)))]_vars

\* the first part of C32: a firing while the feed runs, stop not being
\* called, is one broadcast that reaches every subscriber once and leaves
\* a new timeout pending
C32_EveryFiring ==
    [][(last'.act = "timeout" /\ socket.isRunning /\ ~ Reached(last'.called, "stop")) =>
          /\ Times(last'.called, "broadcast") = 1
          /\ \A c \in socket.subscribers : Times(last'.called, SubscriberName(c)) = 1
          /\ socket'.isRunning
          /\ socket'.intervalId # Null
          /\ socket'.intervalId[1] \in timers']_vars

\* the second part of C32, under SpecSocketFair: if from some time on the
\* first subscriber stays subscribed and the feed stays running, the
\* subscriber is called again and again
C32_InfinitelyOften ==
    <>[](1 \in socket.subscribers /\ socket.isRunning) =>
        []<>(last.act = "timeout" /\ Reached(last.called, SubscriberName(1)))

\* two subscribers were called with one message, the feed running on
C32_WitnessFiring ==
    /\ last.act = "timeout"
    /\ Times(last.called, "broadcast") = 1
    /\ Reached(last.called, SubscriberName(1))
    /\ Reached(last.called, SubscriberName(2))
    /\ socket.isRunning
    /\ Cardinality(timers) = 1

\* ------------------------------------------------------------------ C33
\* the subscribers whose callback threw in the broadcast of the step
Throwers == {c \in DOMAIN last'.input.react : last'.input.react[c] = "throw"}

\* C33: broadcast error isolation -- when one subscriber callback throws
\* while a message is being broadcast, every other current subscriber still
\* receives that message, the error does not propagate out of the timer
\* callback, and the feed keeps running and schedules its next update
C33_ErrorIsolation ==
    [][(last'.act = "timeout" /\ Throwers # {}) =>
          /\ \A c \in socket.subscribers : Times(last'.called, SubscriberName(c)) = 1
          /\ Times(last'.called, "console.error") = Cardinality(Throwers)
          /\ last'.called[Len(last'.called)] = "scheduleNextUpdate"
          /\ (socket.isRunning /\ ~ Reached(last'.called, "stop")) =>
                /\ socket'.isRunning
                /\ socket'.intervalId # Null
                /\ socket'.intervalId[1] \in timers']_vars

\* the first of two subscribers threw, the second was called after it, and
\* the feed runs on with a timeout pending
C33_Witness ==
    /\ last.act = "timeout"
    /\ DOMAIN last.input.react = {1, 2}
    /\ last.input.react[1] = "throw"
    /\ \E i, j \in 1..Len(last.called) :
          /\ i < j
          /\ last.called[i] = "console.error"
          /\ last.called[j] = SubscriberName(2)
    /\ socket.isRunning
    /\ socket.intervalId # Null
    /\ socket.intervalId[1] \in timers

\* every subscriber threw, and the feed runs on
C33_WitnessAll ==
    /\ last.act = "timeout"
    /\ DOMAIN last.input.react = {1, 2}
    /\ \A c \in {1, 2} : last.input.react[c] = "throw"
    /\ Times(last.called, "console.error") = 2
    /\ socket.isRunning
    /\ timers # {}

\* ------------------------------------------------------------------ C34
\* C34: the store's trade list is bounded and newest-first -- after any
\* sequence of addTrade calls (from feed messages or from submitOrder) and
\* clearTrades calls it holds at most 100 trades, the most recently added
\* first, and when a submitOrder generates k trades those appear at the
\* front in reverse generation order
C34_NewestFirst ==
    [][LET k == Times(last'.called, "addTrade")
           kept == IF k + Len(store.trades) <= 100 THEN k + Len(store.trades) ELSE 100
       IN /\ Len(store'.trades) <= 100
          /\ k > 0 =>
                /\ Len(store'.trades) = kept
                /\ \A i \in (k + 1)..kept : store'.trades[i] = store.trades[i - k]
                /\ last'.act = "submitOrder" =>
                      /\ Len(trades') = Len(trades) + k
                      /\ \A i \in 1..k : store'.trades[i] = trades'[Len(trades') - i + 1]
                /\ last'.act = "timeout" =>
                      /\ socket'.sequenceId = socket.sequenceId + 1
                      /\ \A i \in 1..k : store'.trades[i].id = socket.sequenceId
          /\ k = 0 =>
                \/ store'.trades = store.trades
                \/ last'.act = "clearTrades" /\ store'.trades = << >>]_vars

\* the list held a hundred trades of the feed and an order that matched
\* two resting orders was submitted: its two trades are in front, the later
\* one first, and the two oldest trades are gone
C34_Witness ==
    /\ last.act = "submitOrder"
    /\ Times(last.called, "addTrade") = 2
    /\ Len(store.trades) = 100
    /\ Len(trades) >= 2
    /\ store.trades[1] = trades[Len(trades)]
    /\ store.trades[2] = trades[Len(trades) - 1]
    /\ store.trades[1] # store.trades[2]
    /\ socket.sequenceId = 100
    /\ store.trades[100].id = 2

\* the list held a hundred trades and a trade of the feed was added: the
\* oldest is gone
C34_WitnessFeed ==
    /\ last.act = "timeout"
    /\ Len(store.trades) = 100
    /\ socket.sequenceId = 101
    /\ store.trades[1].id = 100
    /\ store.trades[100].id = 1

\* the list was cleared and a trade added after it
C34_WitnessCleared ==
    /\ socket.sequenceId >= 100
    /\ Len(store.trades) = 1

\* ------------------------------------------------------------------ C35
\* C35: all trades held in the store's trade list at any time have pairwise
\* distinct identifiers, under any interleaving of trades added from engine
\* matches (submitOrder) and trades added from simulated-feed messages
C35_DistinctIds ==
    \A i, j \in 1..Len(store.trades) :
        i # j => store.trades[i].id # store.trades[j].id

\* while initializeSocket was called once at most, two trades of the list
\* with one identifier are a trade of the feed and a trade of the engine
C35_EachSourceDistinct ==
    (\A c \in Conns : c > 1 => conns[c] = "none") =>
        \A i, j \in 1..Len(store.trades) :
            (i # j /\ store.trades[i].id = store.trades[j].id) =>
                (\E t \in 1..Len(trades) : trades[t] = store.trades[i])
                    # (\E t \in 1..Len(trades) : trades[t] = store.trades[j])

====
